---- MODULE Spec2Model ----
(***************************************************************************)
(* BasicStation backend of the gateway bridge: the gateway registry, the   *)
(* connection lifecycle (websocketWrap, handleGateway), the ping task, the *)
(* stats loop, the downlink path and the two correlation caches.           *)
(*                                                                         *)
(* Time is counted in stats intervals (the shipped default is 30 s), so    *)
(* the one-minute TTL of the token cache is two units.                     *)
(***************************************************************************)
EXTENDS Integers, Sequences, FiniteSets, TLC

\* ---------------------------------------------------------------- bounds
MaxConn == 2        \* connections accepted in one run
MaxDl == 2          \* downlinks counted per gateway between two flushes
MaxAck == 2         \* dntxed frames counted per gateway between two flushes
MaxUp == 2          \* uplinks counted per gateway between two flushes
MaxTime == 3        \* elapsed stats intervals in one run
MaxSent == 2        \* downlinks in one run of the token cache
MaxCmd == 3         \* longest command line handed to ParseCommandLine

\* ------------------------------------------------------- program constants
StatsInterval == 1  \* the time unit: conf.Backend.BasicStation.StatsInterval
DiidTTL == 2        \* time.Minute, in stats intervals of 30 s
StatsTTL == StatsInterval * 2
WriteTimeout == 1   \* conf.Backend.BasicStation.WriteTimeout, in stats intervals
ReadTimeout == 2    \* conf.Backend.BasicStation.ReadTimeout, in stats intervals

EUI == {"aa", "bb"}
Conns == 1..MaxConn
NilConn == 0        \* gateway.conn == nil
Tokens == {0, 1, 2}
NoId == "none"
DownIds == {"d1", "d2"}
StatNames == {"rx", "rxOK", "tx", "txOK"}
\* a cache key: gateway id, counter name, and whether the ':' separator is there
StatKeys == EUI \X StatNames \X BOOLEAN

VARIABLES
    singleMode,   \* b.singleMode
    singleGwID,   \* b.singleGwID
    bState,       \* "new" (constructed), "running" (Start), "stopped" (Stop)
    gateways,     \* b.gateways.gateways: EUI -> [present, conn]
    hpc,          \* position of each connection's handler
    ceui,         \* gateway id taken from the connection's URL
    sock,         \* "none", "open", "closed"
    ping,         \* ping task of the connection: "off", "wait", "writing", "stopped"
    sloop,        \* stats loops, 0 is the single-mode one: [st, gw, tick, rx, rxOK, tx, txOK]
    muHeld,       \* mutex of the entry gateway{conn: c}
    writers,      \* tasks between the start and the end of a write on each socket
    cur,          \* frame the handler is dispatching
    hh,           \* entry handle the handler got for its reply
    setErr,       \* whether gateways.set returned an error to the handler
    dl,           \* the SendDownlinkFrame call in flight (b.Lock admits one)
    raw,          \* the RawPacketForwarderCommand call in flight
    diidCache,    \* b.diidCache
    statsCache,   \* b.statsCache
    now,          \* clock
    emit,         \* what the last step handed to a callback or returned to a caller
    sent,         \* downlinks stored in the token cache so far: [token, id, at]
    since,        \* per gateway: downlinks and dntxed frames since the last flush
    rdl,          \* read deadline of each connection: [at, seen]
    call          \* a call outside the backend in progress: hostMetrics, ParseCommandLine, metrics.Setup

vars == <<singleMode, singleGwID, bState, gateways, hpc, ceui, sock, ping, sloop,
          muHeld, writers, cur, hh, setErr, dl, raw, diidCache, statsCache, now,
          emit, sent, since, rdl, call>>

\* ------------------------------------------------------------ go-cache
NoItem == [set |-> FALSE, val |-> 0, exp |-> 0]
NoToken == [set |-> FALSE, val |-> NoId, exp |-> 0]

\* Item.Expired: time.Now().UnixNano() > item.Expiration
Expired(item, t) == t > item.exp

\* Cache.Get: found when the key is set and has not expired
CacheFound(c, k, t) == c[k].set /\ ~Expired(c[k], t)

\* Cache.SetDefault: store with the cache's default expiration
CacheSetDefault(c, k, v, ttl, t) == [c EXCEPT ![k] = [set |-> TRUE, val |-> v, exp |-> t + ttl]]

\* Cache.Delete
CacheDelete(c, k) == [c EXCEPT ![k] = NoItem]

\* Cache.IncrementUint32 reports an error when the key is missing or expired
IncrementFails(c, k, t) == ~CacheFound(c, k, t)

\* Cache.IncrementUint32 on a key that is there: add, keep the expiration
\* (the uint32 wraps at 2^32, out of reach of the frames of one interval)
CacheIncrement(c, k, n) == [c EXCEPT ![k].val = @ + n]

\* Cache.DeleteExpired, run by the janitor
CacheDeleteExpired(c, none, t) ==
    [k \in DOMAIN c |-> IF c[k].set /\ Expired(c[k], t) THEN none ELSE c[k]]

\* ------------------------------------------------------- stats counters
ColonKey(e, n) == <<e, n, TRUE>>     \* idStr + ":" + n
PlainKey(e, n) == <<e, n, FALSE>>    \* idStr + n

\* if IncrementUint32(incKey) fails then SetDefault(setKey, 1)
IncrementOrSet(c, incKey, setKey, t) ==
    IF IncrementFails(c, incKey, t)
    THEN CacheSetDefault(c, setKey, 1, StatsTTL, t)
    ELSE CacheIncrement(c, incKey, 1)

\* an increment of the rx counter that asks for the key without its ':'
incrementRxPlain(c, e, t) == IncrementOrSet(c, PlainKey(e, "rx"), ColonKey(e, "rx"), t)

incrementRx(c, e, t) == IncrementOrSet(c, ColonKey(e, "rx"), ColonKey(e, "rx"), t)
incrementRxOK(c, e, t) == IncrementOrSet(c, ColonKey(e, "rxOK"), ColonKey(e, "rxOK"), t)
incrementTxOkStats(c, e, t) == IncrementOrSet(c, PlainKey(e, "txOK"), ColonKey(e, "txOK"), t)
incrementTxStats(c, e, t) == IncrementOrSet(c, PlainKey(e, "tx"), ColonKey(e, "tx"), t)

\* the value the stats loop takes for a counter: absent means zero
StatsValue(c, k, t) == IF CacheFound(c, k, t) THEN c[k].val ELSE 0

\* ------------------------------------------------------------- registry
NoEntry == [present |-> FALSE, conn |-> NilConn]
Entry(c) == [present |-> TRUE, conn |-> c]

\* get: the entry, or not-found
RegGet(reg, e) == reg[e]

\* set fails when the entry that is there holds a live connection
RegSetFails(reg, e) == reg[e].present /\ reg[e].conn # NilConn

RegSet(reg, e, c) == IF RegSetFails(reg, e) THEN reg ELSE [reg EXCEPT ![e] = Entry(c)]

\* remove drops the entry
RegRemove(reg, e) == [reg EXCEPT ![e] = NoEntry]

\* reset keeps the key and nulls the connection
RegReset(reg, e) == [reg EXCEPT ![e] = Entry(NilConn)]

\* ---------------------------------------------------------------- frames
\* a frame: its msgtype, its diid when it is a dntxed, whether it decodes; with
\* a dntxed under dispatch goes the set of the downlinks that were sent with its
\* token before it arrived
NoMsg == [type |-> "none", diid |-> 0, ok |-> FALSE, after |-> {}, txtime |-> 0]
Frame(type, diid, ok) == [type |-> type, diid |-> diid, ok |-> ok, after |-> {}, txtime |-> 0]

\* a timesync request with its txtime
TxTimes == {5, 7}
TimeSync(txtime, ok) == [Frame("timesync", 0, ok) EXCEPT !.txtime = txtime]

\* structs.TimeSyncResponse as handleTimeSync fills it in
TimeSyncResponse(v, t) == [msgtype |-> "timesync", txtime |-> v.txtime, gpstime |-> t]

Loops == 0..MaxConn
\* owed: what the loop's last tick still calls for, "event" from the tick on,
\* "none" once the event is out, "skipped" when the StatsID could not be made
NoLoop == [st |-> "off", gw |-> "aa", tick |-> FALSE, rx |-> 0, rxOK |-> 0, tx |-> 0, txOK |-> 0,
           owed |-> "none"]
\* a loop that is never started
NeverLooping(e) == NoLoop

NewLoop(e) == [NoLoop EXCEPT !.st = "idle", !.gw = e]

W(kind, c) == <<kind, c>>     \* a writing task: ping, dl, raw, or the handler of c

IdleDl == [pc |-> "idle", gw |-> "aa", token |-> 0, id |-> NoId, at |-> 0, h |-> NoEntry]
IdleRaw == [pc |-> "idle", gw |-> "aa", h |-> NoEntry]
NoEvent == [kind |-> "none"]
\* k, m, n, raced: since the gateway's last flush; all, sum, gap: over the run
NoSince == [k |-> 0, m |-> 0, n |-> 0, raced |-> FALSE, all |-> 0, sum |-> 0, gap |-> FALSE]

\* no call outside the backend under way
NoCall == [fn |-> "none"]

\* ------------------------------------------------------- read deadline
\* at: the deadline SetReadDeadline installed; seen: when the connection last
\* got something from its peer (upgrade request, frame, pong)
NoDeadline == [at |-> 0, seen |-> 0]

\* a deadline that is not pushed forward
RefreshedNever(t) == [at |-> 0, seen |-> t]

\* conn.SetReadDeadline(time.Now().Add(b.readTimeout))
Refreshed(t) == [at |-> t + ReadTimeout, seen |-> t]

Init ==
    /\ singleMode \in BOOLEAN
    /\ singleGwID = "aa"
    /\ bState = "new"
    /\ gateways = [e \in EUI |-> NoEntry]
    /\ hpc = [c \in Conns |-> "idle"]
    /\ ceui = [c \in Conns |-> "aa"]
    /\ sock = [c \in Conns |-> "none"]
    /\ ping = [c \in Conns |-> "off"]
    /\ sloop = [l \in Loops |-> NoLoop]
    /\ muHeld = [c \in Conns |-> FALSE]
    /\ writers = [c \in Conns |-> {}]
    /\ cur = [c \in Conns |-> NoMsg]
    /\ hh = [c \in Conns |-> NoEntry]
    /\ setErr = [c \in Conns |-> FALSE]
    /\ dl = IdleDl
    /\ raw = IdleRaw
    /\ diidCache = [k \in Tokens |-> NoToken]
    /\ statsCache = [k \in StatKeys |-> NoItem]
    /\ now = 0
    /\ emit = NoEvent
    /\ sent = {}
    /\ since = [e \in EUI |-> NoSince]
    /\ rdl = [c \in Conns |-> NoDeadline]
    /\ call = NoCall

\* ------------------------------------------------------- Start and Stop
\* Start: serve; in single mode also spawn the permanent stats loop and
\* pre-insert the empty entry of the configured gateway
Start ==
    /\ bState = "new"
    /\ bState' = "running"
    /\ IF singleMode
       THEN /\ sloop' = [sloop EXCEPT ![0] = NewLoop(singleGwID)]
            /\ gateways' = RegSet(gateways, singleGwID, NilConn)
       ELSE UNCHANGED <<sloop, gateways>>
    /\ emit' = NoEvent
    /\ UNCHANGED <<singleMode, singleGwID, hpc, ceui, sock, ping, muHeld, writers,
                   cur, hh, setErr, dl, raw, diidCache, statsCache, now, sent, since, rdl, call>>

\* Stop: isClosed = true, close the listener
Stop ==
    /\ bState = "running"
    /\ bState' = "stopped"
    /\ emit' = NoEvent
    /\ UNCHANGED <<singleMode, singleGwID, gateways, hpc, ceui, sock, ping, sloop,
                   muHeld, writers, cur, hh, setErr, dl, raw, diidCache, statsCache,
                   now, sent, since, rdl, call>>

\* ------------------------------------------------- connection lifecycle
\* websocketWrap up to the call of the handler: upgrade, read deadline,
\* pong handler, ping task spawned. Connections take the slots in order.
Accept(c, e) ==
    /\ bState = "running"
    /\ hpc[c] = "idle"
    /\ \A d \in Conns : d < c => hpc[d] # "idle"
    /\ hpc' = [hpc EXCEPT ![c] = "get"]
    /\ ceui' = [ceui EXCEPT ![c] = e]
    /\ sock' = [sock EXCEPT ![c] = "open"]
    /\ ping' = [ping EXCEPT ![c] = "wait"]
    /\ emit' = NoEvent
    /\ rdl' = [rdl EXCEPT ![c] = Refreshed(now)]
    /\ UNCHANGED <<singleMode, singleGwID, bState, gateways, sloop, muHeld, writers,
                   cur, hh, setErr, dl, raw, diidCache, statsCache, now, sent, since, call>>

\* the texts a URL's last path segment or a certificate's Common Name may
\* hold: hex in either case, a second EUI, not hex, nothing
Texts == {"aa", "AA", "bb", "zz", ""}
NoCert == "nocert"      \* r.TLS == nil, or no peer certificate
Certs == {NoCert} \cup Texts

\* lorawan.EUI64.UnmarshalText: hex of either case decodes, anything else fails
UnmarshalText(t) ==
    CASE t \in {"aa", "AA"} -> [ok |-> TRUE, eui |-> "aa"]
      [] t = "bb" -> [ok |-> TRUE, eui |-> "bb"]
      [] OTHER -> [ok |-> FALSE, eui |-> "aa"]

\* an identity check that never looks at the certificate
IdentityByURL(seg, cn) == UnmarshalText(seg)

\* handleGateway's identity check: the EUI of the URL, and with a peer
\* certificate its Common Name parsed and compared
IdentityOf(seg, cn) ==
    LET g == UnmarshalText(seg) IN
    IF ~g.ok THEN g
    ELSE IF cn # NoCert /\ (~UnmarshalText(cn).ok \/ UnmarshalText(cn).eui # g.eui)
         THEN [g EXCEPT !.ok = FALSE]
         ELSE g

\* websocketWrap and handleGateway up to the identity check, from the request
Connect(c, seg, cn) ==
    IF IdentityOf(seg, cn).ok
    THEN Accept(c, IdentityOf(seg, cn).eui)
    ELSE /\ bState = "running"
         /\ hpc[c] = "idle"
         /\ \A d \in Conns : d < c => hpc[d] # "idle"
         /\ hpc' = [hpc EXCEPT ![c] = "badid"]
         /\ sock' = [sock EXCEPT ![c] = "open"]
         /\ ping' = [ping EXCEPT ![c] = "wait"]
         /\ emit' = NoEvent
         /\ rdl' = [rdl EXCEPT ![c] = Refreshed(now)]
         /\ UNCHANGED <<singleMode, singleGwID, bState, gateways, ceui, sloop, muHeld,
                        writers, cur, hh, setErr, dl, raw, diidCache, statsCache, now,
                        sent, since, call>>

\* handleGateway's guard against overwriting: err == nil && existingGw.conn != nil
ExistingLive(reg, e) == RegGet(reg, e).present /\ RegGet(reg, e).conn # NilConn

\* a check that lets a connection through whatever the registry holds
AfterCheckUnguarded(reg, single, sgw, e) ==
    IF single /\ e # sgw THEN "ignored" ELSE "set"

\* a check that knows nothing of single mode
AfterCheckAnyEUI(reg, single, sgw, e) ==
    IF ExistingLive(reg, e) THEN "rejected" ELSE "set"

\* handleGateway from the existing-connection check to the spawn of the
\* stats loop: where the handler goes next
AfterCheck(reg, single, sgw, e) ==
    IF ExistingLive(reg, e) THEN "rejected"
    ELSE IF single /\ e # sgw THEN "ignored"
    ELSE "set"

CheckExisting(c) ==
    /\ hpc[c] = "get"
    /\ LET out == AfterCheck(gateways, singleMode, singleGwID, ceui[c]) IN
       /\ hpc' = [hpc EXCEPT ![c] = out]
       /\ sloop' = IF out = "set" /\ ~singleMode
                   THEN [sloop EXCEPT ![c] = NewLoop(ceui[c])]
                   ELSE sloop
    /\ emit' = NoEvent
    /\ UNCHANGED <<singleMode, singleGwID, bState, gateways, ceui, sock, ping, muHeld,
                   writers, cur, hh, setErr, dl, raw, diidCache, statsCache, now, sent, since, rdl, call>>

\* what handleGateway does with the result of gateways.set: an error is
\* logged and the handler goes on to the read loop all the same
AfterSet(failed) == "read"

\* b.gateways.set(gatewayID, gateway{conn: c})
Register(c) ==
    /\ hpc[c] = "set"
    /\ gateways' = RegSet(gateways, ceui[c], c)
    /\ setErr' = [setErr EXCEPT ![c] = RegSetFails(gateways, ceui[c])]
    /\ hpc' = [hpc EXCEPT ![c] = AfterSet(RegSetFails(gateways, ceui[c]))]
    /\ emit' = NoEvent
    /\ UNCHANGED <<singleMode, singleGwID, bState, ceui, sock, ping, sloop, muHeld,
                   writers, cur, hh, dl, raw, diidCache, statsCache, now, sent, since, rdl, call>>

\* a read loop that goes to the deregistration without the deferred signal
AfterReadErrorUnsignalled == "dereg"

\* the read loop's return: the handler's defers run next
AfterReadError == "ret"

\* c.ReadMessage returns an error: the peer closed, the read deadline passed,
\* or the socket was closed here
ReadError(c) ==
    /\ hpc[c] = "read"
    /\ hpc' = [hpc EXCEPT ![c] = AfterReadError]
    /\ emit' = NoEvent
    /\ UNCHANGED <<singleMode, singleGwID, bState, gateways, ceui, sock, ping, sloop,
                   muHeld, writers, cur, hh, setErr, dl, raw, diidCache, statsCache,
                   now, sent, since, rdl, call>>

\* a stats loop that takes the done signal and goes back to its select
AfterDoneLoopsOn == "idle"

\* statsLoop's case <-done: return
AfterDone == "stopped"

\* deferred in normal mode: done <- struct{}{}, received by the stats loop at
\* its select
StopStats(c) ==
    /\ hpc[c] = "ret"
    /\ ~singleMode
    /\ sloop[c].st = "idle"
    /\ sloop' = [sloop EXCEPT ![c].st = AfterDone]
    /\ since' = [since EXCEPT ![ceui[c]].gap = @ \/ since[ceui[c]].n > 0]
    /\ hpc' = [hpc EXCEPT ![c] = "dereg"]
    /\ emit' = NoEvent
    /\ UNCHANGED <<singleMode, singleGwID, bState, gateways, ceui, sock, ping, muHeld,
                   writers, cur, hh, setErr, dl, raw, diidCache, statsCache, now, sent, rdl, call>>

\* a handler that returns without deregistering
DeregisteredNever(reg, single, e) == reg

\* a deregistration that removes the entry in either mode
DeregisteredByRemove(reg, single, e) == RegRemove(reg, e)

\* the handler's deferred deregistration: reset in single mode, remove otherwise
Deregistered(reg, single, e) == IF single THEN RegReset(reg, e) ELSE RegRemove(reg, e)

Deregister(c) ==
    /\ \/ singleMode /\ hpc[c] = "ret"
       \/ ~singleMode /\ hpc[c] = "dereg"
    /\ gateways' = Deregistered(gateways, singleMode, ceui[c])
    /\ hpc' = [hpc EXCEPT ![c] = "wrapdone"]
    /\ emit' = NoEvent
    /\ UNCHANGED <<singleMode, singleGwID, bState, ceui, sock, ping, sloop, muHeld,
                   writers, cur, hh, setErr, dl, raw, diidCache, statsCache, now, sent, since, rdl, call>>

\* websocketWrap after the handler returned: done <- struct{}{} received by
\* the ping task at its select, then the deferred conn.Close()
StopPing(c) ==
    /\ hpc[c] \in {"wrapdone", "rejected", "ignored", "badid"}
    /\ ping[c] = "wait"
    /\ ping' = [ping EXCEPT ![c] = "stopped"]
    /\ sock' = [sock EXCEPT ![c] = "closed"]
    /\ hpc' = [hpc EXCEPT ![c] = IF hpc[c] = "wrapdone" THEN "closed" ELSE "refused"]
    /\ emit' = NoEvent
    /\ UNCHANGED <<singleMode, singleGwID, bState, gateways, ceui, sloop, muHeld,
                   writers, cur, hh, setErr, dl, raw, diidCache, statsCache, now, sent, since, rdl, call>>

\* ---------------------------------------------------------- router-info
Hosts == {"h1", "h2"}       \* r.Host

\* b.scheme: "ws", set to "wss" by the serve task when TLS is configured
Scheme(tls) == IF tls THEN "wss" ELSE "ws"

\* fmt.Sprintf("%s://%s/gateway/%s", b.scheme, r.Host, EUI64(req.Router))
RouterURI(scheme, host, router) == <<scheme, "://", host, "/gateway/", router>>

\* a response that never looks at the certificate
RouterInfoResponseByURL(router, host, tls, cn) ==
    [router |-> router, muxs |-> router, uri |-> RouterURI(Scheme(tls), host, router),
     error |-> <<>>]

\* structs.RouterInfoResponse as handleRouterInfo fills it in
RouterInfoResponse(router, host, tls, cn) ==
    IF cn # NoCert /\ (~UnmarshalText(cn).ok \/ UnmarshalText(cn).eui # router)
    THEN [router |-> router, muxs |-> router, uri |-> <<>>,
          error |-> <<"certificate CommonName ", cn, " does not match router ", router>>]
    ELSE [router |-> router, muxs |-> router, uri |-> RouterURI(Scheme(tls), host, router),
          error |-> <<>>]

\* websocketWrap up to the call of handleRouterInfo
RouterInfoAccept(c) ==
    /\ bState = "running"
    /\ hpc[c] = "idle"
    /\ \A d \in Conns : d < c => hpc[d] # "idle"
    /\ hpc' = [hpc EXCEPT ![c] = "ri_read"]
    /\ sock' = [sock EXCEPT ![c] = "open"]
    /\ ping' = [ping EXCEPT ![c] = "wait"]
    /\ emit' = NoEvent
    /\ rdl' = [rdl EXCEPT ![c] = Refreshed(now)]
    /\ UNCHANGED <<singleMode, singleGwID, bState, gateways, ceui, sloop, muHeld, writers,
                   cur, hh, setErr, dl, raw, diidCache, statsCache, now, sent, since, call>>

\* c.ReadJSON(&req); with a request the response is built and marshalled, the
\* write deadline set and WriteMessage begun, with no lock taken; a
\* certificate is only there under TLS
RouterInfoRead(c, readOk, router, host, tls, cn) ==
    /\ hpc[c] = "ri_read"
    /\ sock[c] = "open"
    /\ cn # NoCert => tls
    /\ IF readOk
       THEN /\ hpc' = [hpc EXCEPT ![c] = "ri_write"]
            /\ writers' = [writers EXCEPT ![c] = @ \cup {W("h", c)}]
            /\ emit' = [kind |-> "routerinfo", conn |-> c, deadline |-> TRUE,
                        resp |-> RouterInfoResponse(router, host, tls, cn)]
       ELSE /\ hpc' = [hpc EXCEPT ![c] = "wrapdone"]
            /\ emit' = NoEvent
            /\ UNCHANGED writers
    /\ UNCHANGED <<singleMode, singleGwID, bState, gateways, ceui, sock, ping, sloop, muHeld,
                   cur, hh, setErr, dl, raw, diidCache, statsCache, now, sent, since, rdl, call>>

\* a handler that goes back to ReadJSON after a frame well written
AfterRouterInfoWriteAgain(ok) == IF ok THEN "ri_read" ELSE "wrapdone"

\* where handleRouterInfo goes when WriteMessage has returned: it returns,
\* with an error logged or not
AfterRouterInfoWrite(ok) == "wrapdone"

RouterInfoWriteEnd(c, ok) ==
    /\ hpc[c] = "ri_write"
    /\ ok => sock[c] = "open"
    /\ writers' = [writers EXCEPT ![c] = @ \ {W("h", c)}]
    /\ hpc' = [hpc EXCEPT ![c] = AfterRouterInfoWrite(ok)]
    /\ emit' = NoEvent
    /\ UNCHANGED <<singleMode, singleGwID, bState, gateways, ceui, sock, ping, sloop, muHeld,
                   cur, hh, setErr, dl, raw, diidCache, statsCache, now, sent, since, rdl, call>>

\* ------------------------------------------------------------ ping task
\* ticker fired: SetWriteDeadline, WriteMessage(PingMessage) begins; the task
\* takes no lock
PingStart(c) ==
    /\ ping[c] = "wait"
    /\ ping' = [ping EXCEPT ![c] = "writing"]
    /\ writers' = [writers EXCEPT ![c] = @ \cup {W("ping", c)}]
    /\ emit' = NoEvent
    /\ UNCHANGED <<singleMode, singleGwID, bState, gateways, hpc, ceui, sock, sloop,
                   muHeld, cur, hh, setErr, dl, raw, diidCache, statsCache, now, sent, since, rdl, call>>

\* WriteMessage returns; on an error the task closes the connection
PingEnd(c, ok) ==
    /\ ping[c] = "writing"
    /\ ok => sock[c] = "open"
    /\ ping' = [ping EXCEPT ![c] = "wait"]
    /\ writers' = [writers EXCEPT ![c] = @ \ {W("ping", c)}]
    /\ sock' = IF ok THEN sock ELSE [sock EXCEPT ![c] = "closed"]
    /\ emit' = NoEvent
    /\ UNCHANGED <<singleMode, singleGwID, bState, gateways, hpc, ceui, sloop,
                   muHeld, cur, hh, setErr, dl, raw, diidCache, statsCache, now, sent, since, rdl, call>>

\* ---------------------------------------------------------- read loop
\* a counter of gateway e is bumped: it races the flush when a stats loop of
\* e stands between its reads and its deletes
MidFlush(e) == \E l \in Loops : sloop[l].gw = e /\ sloop[l].st \in {"r1", "r2"}

Bumped(e, field) ==
    [since EXCEPT ![e] = [@ EXCEPT ![field] = @ + 1, !.raced = @ \/ MidFlush(e)]]

\* the msgtypes whose branch of the dispatch begins with incrementRxStats
UplinkTypes == {"updf", "jreq", "propdf"}

\* a handler of gateway e stands inside incrementRxStats, between its two counters
MidCount(e) == \E c \in Conns : ceui[c] = e /\ hpc[c] = "rxok"

\* the downlink SendDownlinkFrame has stored and not yet finished sending
InFlight == IF dl.pc = "idle" THEN {} ELSE {[token |-> dl.token, id |-> dl.id, at |-> dl.at]}

\* the downlinks with the token that were sent before now
SentBefore(diid) == {s \in sent : s.token = diid} \ InFlight

\* one frame read and classified, up to the first step of its handling that
\* other tasks can interleave with
ReadMessage(c, m) ==
    /\ hpc[c] = "read"
    /\ sock[c] = "open"
    /\ CASE m.type \in {"version", "timesync"} ->
              LET h == RegGet(gateways, ceui[c]) IN
              /\ hpc' = [hpc EXCEPT ![c] = IF m.ok /\ h.present THEN "reply" ELSE "read"]
              /\ hh' = [hh EXCEPT ![c] = IF m.ok /\ h.present THEN h ELSE NoEntry]
              /\ cur' = [cur EXCEPT ![c] = IF m.ok /\ h.present THEN m ELSE NoMsg]
              /\ UNCHANGED <<statsCache, since>>
         [] m.type \in UplinkTypes ->
              /\ since[ceui[c]].n < MaxUp
              /\ statsCache' = incrementRx(statsCache, ceui[c], now)
              /\ since' = [Bumped(ceui[c], "n") EXCEPT ![ceui[c]].all = @ + 1,
                                                        ![ceui[c]].gap = @ \/ MidFlush(ceui[c])]
              /\ hpc' = [hpc EXCEPT ![c] = "rxok"]
              /\ cur' = [cur EXCEPT ![c] = m]
              /\ UNCHANGED hh
         [] m.type = "dntxed" ->
              /\ since[ceui[c]].m < MaxAck
              /\ statsCache' = incrementTxOkStats(statsCache, ceui[c], now)
              /\ since' = Bumped(ceui[c], "m")
              /\ hpc' = [hpc EXCEPT ![c] = IF m.ok THEN "dntxed" ELSE "read"]
              /\ cur' = [cur EXCEPT ![c] =
                            IF m.ok THEN [m EXCEPT !.after = SentBefore(m.diid)]
                            ELSE NoMsg]
              /\ UNCHANGED hh
    /\ emit' = NoEvent
    /\ rdl' = [rdl EXCEPT ![c] = Refreshed(now)]
    /\ UNCHANGED <<singleMode, singleGwID, bState, gateways, ceui, sock, ping, sloop,
                   muHeld, writers, setErr, dl, raw, diidCache, now, sent, call>>

\* a handler that gives up the connection on a frame it cannot classify
AfterBadFrameReturn == "ret"

\* a handler that treats a frame it cannot classify as an uplink
AfterBadFrameDispatch == "rxok"

\* where the read loop goes when structs.GetMessageType fails: continue
AfterBadFrame == "read"

\* a text frame that is no JSON or has no readable msgtype: logged
ReadBadFrame(c) ==
    /\ hpc[c] = "read"
    /\ sock[c] = "open"
    /\ hpc' = [hpc EXCEPT ![c] = AfterBadFrame]
    /\ emit' = NoEvent
    /\ rdl' = [rdl EXCEPT ![c] = Refreshed(now)]
    /\ UNCHANGED <<singleMode, singleGwID, bState, gateways, ceui, sock, ping, sloop,
                   muHeld, writers, cur, hh, setErr, dl, raw, diidCache, statsCache,
                   now, sent, since, call>>

\* the frames that go to handleRawPacketForwarderEvent: binary ones, and text
\* ones with a msgtype the dispatch does not know; with their bytes
RawFrames == [type : {"binary", "other"}, bytes : {"b1", "b2"}]

\* an event that carries the bytes as the debug log prints them
RawEventEncoded(e, pl) == [kind |-> "rawevent", gw |-> e, payload |-> <<"base64", pl>>]

\* gw.RawPacketForwarderEvent as handleRawPacketForwarderEvent fills it in
RawEvent(e, pl) == [kind |-> "rawevent", gw |-> e, payload |-> pl]

\* such a frame read and handled: a RawID, and with one the event
ReadRaw(c, m, idOk) ==
    /\ hpc[c] = "read"
    /\ sock[c] = "open"
    /\ emit' = IF idOk THEN RawEvent(ceui[c], m.bytes) ELSE NoEvent
    /\ rdl' = [rdl EXCEPT ![c] = Refreshed(now)]
    /\ UNCHANGED <<singleMode, singleGwID, bState, gateways, hpc, ceui, sock, ping, sloop,
                   muHeld, writers, cur, hh, setErr, dl, raw, diidCache, statsCache,
                   now, sent, since, call>>

\* rest of an uplink: the rxOK counter, decode, translate, uplinkFrameFunc
HandleUplink(c) ==
    /\ hpc[c] = "rxok"
    /\ statsCache' = incrementRxOK(statsCache, ceui[c], now)
    /\ since' = [since EXCEPT ![ceui[c]].raced = @ \/ MidFlush(ceui[c])]
    /\ emit' = IF cur[c].ok THEN [kind |-> "uplink", conn |-> c, gw |-> ceui[c]] ELSE NoEvent
    /\ hpc' = [hpc EXCEPT ![c] = "read"]
    /\ cur' = [cur EXCEPT ![c] = NoMsg]
    /\ UNCHANGED <<singleMode, singleGwID, bState, gateways, ceui, sock, ping, sloop,
                   muHeld, writers, hh, setErr, dl, raw, diidCache, now, sent, rdl, call>>

\* an ack that takes whatever the cache still holds, expired or not
AckIgnoringExpiry(cache, diid, t) == cache[diid].val

\* the downlink id handleDownlinkTransmittedMessage attaches to the ack
AckDownlinkId(cache, diid, t) == IF CacheFound(cache, diid, t) THEN cache[diid].val ELSE NoId

\* handleDownlinkTransmittedMessage, under b.RLock: convert (an error is logged
\* and nothing is emitted), look the token up, downlinkTxAckFunc
HandleDntxed(c, convOk) ==
    /\ hpc[c] = "dntxed"
    /\ dl.pc = "idle"
    /\ emit' = IF convOk
               THEN [kind |-> "ack", conn |-> c, gw |-> ceui[c], diid |-> cur[c].diid,
                     id |-> AckDownlinkId(diidCache, cur[c].diid, now), after |-> cur[c].after]
               ELSE [kind |-> "dropped", conn |-> c, gw |-> ceui[c]]
    /\ hpc' = [hpc EXCEPT ![c] = "read"]
    /\ cur' = [cur EXCEPT ![c] = NoMsg]
    /\ UNCHANGED <<singleMode, singleGwID, bState, gateways, ceui, sock, ping, sloop,
                   muHeld, writers, hh, setErr, dl, raw, diidCache, statsCache, now,
                   sent, since, rdl, call>>

\* sendDataToGWviaSocket for the router-config or timesync reply: lock the
\* entry, and with a connection set the deadline and begin the write
ReplyStart(c) ==
    /\ hpc[c] = "reply"
    /\ IF hh[c].conn = NilConn
       THEN /\ hpc' = [hpc EXCEPT ![c] = "read"]
            /\ cur' = [cur EXCEPT ![c] = NoMsg]
            /\ hh' = [hh EXCEPT ![c] = NoEntry]
            /\ UNCHANGED <<muHeld, writers>>
       ELSE /\ ~muHeld[hh[c].conn]
            /\ muHeld' = [muHeld EXCEPT ![hh[c].conn] = TRUE]
            /\ writers' = [writers EXCEPT ![hh[c].conn] = @ \cup {W("h", c)}]
            /\ hpc' = [hpc EXCEPT ![c] = "replying"]
            /\ UNCHANGED <<cur, hh>>
    /\ emit' = IF hh[c].conn = NilConn THEN NoEvent
               ELSE [kind |-> "reply", conn |-> c, to |-> hh[c].conn, type |-> cur[c].type,
                     body |-> IF cur[c].type = "timesync"
                              THEN TimeSyncResponse(cur[c], now)
                              ELSE [msgtype |-> "router_config"]]
    /\ UNCHANGED <<singleMode, singleGwID, bState, gateways, ceui, sock, ping, sloop,
                   setErr, dl, raw, diidCache, statsCache, now, sent, since, rdl, call>>

ReplyEnd(c, ok) ==
    /\ hpc[c] = "replying"
    /\ ok => sock[hh[c].conn] = "open"
    /\ muHeld' = [muHeld EXCEPT ![hh[c].conn] = FALSE]
    /\ writers' = [writers EXCEPT ![hh[c].conn] = @ \ {W("h", c)}]
    /\ hpc' = [hpc EXCEPT ![c] = "read"]
    /\ cur' = [cur EXCEPT ![c] = NoMsg]
    /\ hh' = [hh EXCEPT ![c] = NoEntry]
    /\ emit' = NoEvent
    /\ UNCHANGED <<singleMode, singleGwID, bState, gateways, ceui, sock, ping, sloop,
                   setErr, dl, raw, diidCache, statsCache, now, sent, since, rdl, call>>

\* -------------------------------------------------------- downlink path
\* the token SendDownlinkFrame uses: a random 16-bit one when df.Token == 0
TokenUsed(tok, r) == IF tok = 0 THEN r ELSE tok

\* diidCache.SetDefault(fmt.Sprintf("%d", df.Token), df.GetDownlinkId())
StoreToken(cache, tok, id, t) == CacheSetDefault(cache, tok, id, DiidTTL, t)

\* what a call returns, with what it did on the way
Returned(kind, g, lookup, attempts, res, to) ==
    [kind |-> kind, gw |-> g, lookup |-> lookup, attempts |-> attempts, res |-> res, to |-> to]

\* SendDownlinkFrame up to the call of sendToGateway: b.Lock, token, encode,
\* tx counter, token cache
DlBegin(g, tok, id, r, encOk) ==
    /\ dl.pc = "idle"
    /\ since[g].k < MaxDl
    /\ tok # 0 => r = 0
    /\ IF encOk
       THEN /\ statsCache' = incrementTxStats(statsCache, g, now)
            /\ diidCache' = StoreToken(diidCache, TokenUsed(tok, r), id, now)
            /\ dl' = [pc |-> "get", gw |-> g, token |-> TokenUsed(tok, r), id |-> id,
                      at |-> now, h |-> NoEntry]
            /\ sent' = sent \cup {[token |-> TokenUsed(tok, r), id |-> id, at |-> now]}
            /\ since' = Bumped(g, "k")
            /\ emit' = NoEvent
       ELSE /\ emit' = Returned("dlret", g, "none", 0, "err", NilConn)
            /\ UNCHANGED <<statsCache, diidCache, dl, sent, since>>
    /\ UNCHANGED <<singleMode, singleGwID, bState, gateways, hpc, ceui, sock, ping, sloop,
                   muHeld, writers, cur, hh, setErr, raw, now, rdl, call>>

\* a lookup that never reports a missing entry
LookupNeverFails(reg, e) == FALSE

\* sendToGateway / sendRawToGateway: an error of gateways.get is returned
LookupFails(reg, e) == ~RegGet(reg, e).present

\* a lookup that hands out the entry of another gateway
LookedUpOther(reg, e) == RegGet(reg, CHOOSE x \in EUI : x # e)

\* the entry sendToGateway / sendRawToGateway hands to sendDataToGWviaSocket
LookedUp(reg, e) == RegGet(reg, e)

\* sendToGateway: b.gateways.get
DlGet ==
    /\ dl.pc = "get"
    /\ IF LookupFails(gateways, dl.gw)
       THEN /\ dl' = IdleDl
            /\ emit' = Returned("dlret", dl.gw, "notfound", 0, "err", NilConn)
       ELSE /\ dl' = [dl EXCEPT !.pc = "lock", !.h = LookedUp(gateways, dl.gw)]
            /\ emit' = NoEvent
    /\ UNCHANGED <<singleMode, singleGwID, bState, gateways, hpc, ceui, sock, ping, sloop,
                   muHeld, writers, cur, hh, setErr, raw, diidCache, statsCache, now,
                   sent, since, rdl, call>>

\* sendDataToGWviaSocket with gw.conn == nil returns errors.Wrap(err, ...) of an
\* err that is not the function's own: nil when that err is nil
NilConnResult(errIsNil) == IF errIsNil THEN "ok" ELSE "err"

\* what the caller gets once WriteMessage returned
WriteResult(ok) == IF ok THEN "ok" ELSE "err"

\* sendDataToGWviaSocket: lock the entry; without a connection return, else
\* SetWriteDeadline and WriteMessage begins
DlSend(errIsNil) ==
    /\ dl.pc = "lock"
    /\ IF dl.h.conn = NilConn
       THEN /\ dl' = IdleDl
            /\ emit' = Returned("dlret", dl.gw, "nil", 0, NilConnResult(errIsNil), NilConn)
            /\ UNCHANGED <<muHeld, writers>>
       ELSE /\ errIsNil
            /\ ~muHeld[dl.h.conn]
            /\ muHeld' = [muHeld EXCEPT ![dl.h.conn] = TRUE]
            /\ writers' = [writers EXCEPT ![dl.h.conn] = @ \cup {W("dl", 0)}]
            /\ dl' = [dl EXCEPT !.pc = "write"]
            /\ emit' = NoEvent
    /\ UNCHANGED <<singleMode, singleGwID, bState, gateways, hpc, ceui, sock, ping, sloop,
                   cur, hh, setErr, raw, diidCache, statsCache, now, sent, since, rdl, call>>

\* WriteMessage returns, the entry is unlocked, SendDownlinkFrame returns
DlWriteEnd(ok) ==
    /\ dl.pc = "write"
    /\ ok => sock[dl.h.conn] = "open"
    /\ muHeld' = [muHeld EXCEPT ![dl.h.conn] = FALSE]
    /\ writers' = [writers EXCEPT ![dl.h.conn] = @ \ {W("dl", 0)}]
    /\ dl' = IdleDl
    /\ emit' = Returned("dlret", dl.gw, IF ok THEN "written" ELSE "werr", 1, WriteResult(ok), dl.h.conn)
    /\ UNCHANGED <<singleMode, singleGwID, bState, gateways, hpc, ceui, sock, ping, sloop,
                   cur, hh, setErr, raw, diidCache, statsCache, now, sent, since, rdl, call>>

\* RawPacketForwarderCommand up to sendDataToGWviaSocket
RawBegin(g, pl) ==
    /\ raw.pc = "idle"
    /\ IF pl = "empty"
       THEN /\ emit' = Returned("rawret", g, "none", 0, "err", NilConn)
            /\ UNCHANGED raw
       ELSE IF LookupFails(gateways, g)
       THEN /\ emit' = Returned("rawret", g, "notfound", 0, "err", NilConn)
            /\ UNCHANGED raw
       ELSE /\ raw' = [pc |-> "lock", gw |-> g, h |-> LookedUp(gateways, g)]
            /\ emit' = NoEvent
    /\ UNCHANGED <<singleMode, singleGwID, bState, gateways, hpc, ceui, sock, ping, sloop,
                   muHeld, writers, cur, hh, setErr, dl, diidCache, statsCache, now,
                   sent, since, rdl, call>>

RawSend(errIsNil) ==
    /\ raw.pc = "lock"
    /\ IF raw.h.conn = NilConn
       THEN /\ raw' = IdleRaw
            /\ emit' = Returned("rawret", raw.gw, "nil", 0, NilConnResult(errIsNil), NilConn)
            /\ UNCHANGED <<muHeld, writers>>
       ELSE /\ errIsNil
            /\ ~muHeld[raw.h.conn]
            /\ muHeld' = [muHeld EXCEPT ![raw.h.conn] = TRUE]
            /\ writers' = [writers EXCEPT ![raw.h.conn] = @ \cup {W("raw", 0)}]
            /\ raw' = [raw EXCEPT !.pc = "write"]
            /\ emit' = NoEvent
    /\ UNCHANGED <<singleMode, singleGwID, bState, gateways, hpc, ceui, sock, ping, sloop,
                   cur, hh, setErr, dl, diidCache, statsCache, now, sent, since, rdl, call>>

RawWriteEnd(ok) ==
    /\ raw.pc = "write"
    /\ ok => sock[raw.h.conn] = "open"
    /\ muHeld' = [muHeld EXCEPT ![raw.h.conn] = FALSE]
    /\ writers' = [writers EXCEPT ![raw.h.conn] = @ \ {W("raw", 0)}]
    /\ raw' = IdleRaw
    /\ emit' = Returned("rawret", raw.gw, IF ok THEN "written" ELSE "werr", 1, WriteResult(ok), raw.h.conn)
    /\ UNCHANGED <<singleMode, singleGwID, bState, gateways, hpc, ceui, sock, ping, sloop,
                   cur, hh, setErr, dl, diidCache, statsCache, now, sent, since, rdl, call>>

\* ------------------------------------------------------------ stats loop
\* statsTicker.C fired: the first Get
StatsReadRx(l) ==
    /\ sloop[l].st = "idle"
    /\ sloop[l].tick
    /\ sloop' = [sloop EXCEPT ![l] = [@ EXCEPT !.st = "r1", !.tick = FALSE,
                     !.rx = StatsValue(statsCache, ColonKey(sloop[l].gw, "rx"), now)]]
    /\ emit' = NoEvent
    /\ UNCHANGED <<singleMode, singleGwID, bState, gateways, hpc, ceui, sock, ping,
                   muHeld, writers, cur, hh, setErr, dl, raw, diidCache, statsCache,
                   now, sent, since, rdl, call>>

\* the tick taken and uuid.NewV4 failing: logged, continue
StatsSkip(l) ==
    /\ sloop[l].st = "idle"
    /\ sloop[l].tick
    /\ sloop' = [sloop EXCEPT ![l] = [@ EXCEPT !.tick = FALSE, !.owed = "skipped"]]
    /\ emit' = NoEvent
    /\ UNCHANGED <<singleMode, singleGwID, bState, gateways, hpc, ceui, sock, ping,
                   muHeld, writers, cur, hh, setErr, dl, raw, diidCache, statsCache,
                   now, sent, since, rdl, call>>

\* the other three Gets
StatsReadRest(l) ==
    /\ sloop[l].st = "r1"
    /\ sloop' = [sloop EXCEPT ![l] = [@ EXCEPT !.st = "r2",
                     !.rxOK = StatsValue(statsCache, ColonKey(sloop[l].gw, "rxOK"), now),
                     !.tx = StatsValue(statsCache, ColonKey(sloop[l].gw, "tx"), now),
                     !.txOK = StatsValue(statsCache, ColonKey(sloop[l].gw, "txOK"), now)]]
    /\ emit' = NoEvent
    /\ UNCHANGED <<singleMode, singleGwID, bState, gateways, hpc, ceui, sock, ping,
                   muHeld, writers, cur, hh, setErr, dl, raw, diidCache, statsCache,
                   now, sent, since, rdl, call>>

\* the four counters of a gateway deleted
FlushedCache(c, e) ==
    CacheDelete(CacheDelete(CacheDelete(CacheDelete(c, ColonKey(e, "rx")), ColonKey(e, "rxOK")),
                            ColonKey(e, "tx")), ColonKey(e, "txOK"))

\* the four Deletes and gatewayStatsFunc
StatsFlush(l) ==
    /\ sloop[l].st = "r2"
    /\ statsCache' = FlushedCache(statsCache, sloop[l].gw)
    /\ emit' = [kind |-> "stats", gw |-> sloop[l].gw, rx |-> sloop[l].rx, rxOK |-> sloop[l].rxOK,
                tx |-> sloop[l].tx, txOK |-> sloop[l].txOK,
                k |-> since[sloop[l].gw].k, m |-> since[sloop[l].gw].m,
                n |-> since[sloop[l].gw].n,
                raced |-> since[sloop[l].gw].raced \/ MidCount(sloop[l].gw)]
    /\ since' = [since EXCEPT ![sloop[l].gw] =
                     [NoSince EXCEPT !.raced = MidCount(sloop[l].gw),
                                     !.all = since[sloop[l].gw].all,
                                     !.sum = since[sloop[l].gw].sum + sloop[l].rx,
                                     !.gap = since[sloop[l].gw].gap]]
    /\ sloop' = [sloop EXCEPT ![l] = [NewLoop(sloop[l].gw) EXCEPT !.tick = sloop[l].tick]]
    /\ UNCHANGED <<singleMode, singleGwID, bState, gateways, hpc, ceui, sock, ping,
                   muHeld, writers, cur, hh, setErr, dl, raw, diidCache, now, sent, rdl, call>>

\* ----------------------------------------------------------------- time
\* one stats interval passes; every running loop has handled its last tick
\* (a flush takes less than a stats interval)
Tick ==
    /\ now < MaxTime
    /\ \A l \in Loops : sloop[l].st \in {"off", "stopped"} \/ (sloop[l].st = "idle" /\ ~sloop[l].tick)
    /\ now' = now + StatsInterval
    /\ sloop' = [l \in Loops |-> IF sloop[l].st = "idle"
                                  THEN [sloop[l] EXCEPT !.tick = TRUE, !.owed = "event"]
                                  ELSE sloop[l]]
    /\ emit' = NoEvent
    /\ UNCHANGED <<singleMode, singleGwID, bState, gateways, hpc, ceui, sock, ping,
                   muHeld, writers, cur, hh, setErr, dl, raw, diidCache, statsCache,
                   sent, since, rdl, call>>

\* the caches' janitors: DeleteExpired
JanitorDiid ==
    /\ \E k \in Tokens : diidCache[k].set /\ Expired(diidCache[k], now)
    /\ diidCache' = CacheDeleteExpired(diidCache, NoToken, now)
    /\ emit' = NoEvent
    /\ UNCHANGED <<singleMode, singleGwID, bState, gateways, hpc, ceui, sock, ping, sloop,
                   muHeld, writers, cur, hh, setErr, dl, raw, statsCache, now, sent, since, rdl, call>>

JanitorStats ==
    /\ \E k \in StatKeys : statsCache[k].set /\ Expired(statsCache[k], now)
    /\ statsCache' = CacheDeleteExpired(statsCache, NoItem, now)
    /\ emit' = NoEvent
    /\ UNCHANGED <<singleMode, singleGwID, bState, gateways, hpc, ceui, sock, ping, sloop,
                   muHeld, writers, cur, hh, setErr, dl, raw, diidCache, now, sent, since, rdl, call>>

\* ------------------------------------------------------- specifications
\* Registry and connection lifecycle: connects, duplicate connects, uplinks,
\* disconnects, Stop. The clock stands still.
Next ==
    \/ Start
    \/ Stop
    \/ \E c \in Conns, e \in EUI : Accept(c, e)
    \/ \E c \in Conns : CheckExisting(c)
    \/ \E c \in Conns : Register(c)
    \/ \E c \in Conns : ReadMessage(c, Frame("updf", 0, TRUE))
    \/ \E c \in Conns : HandleUplink(c)
    \/ \E c \in Conns : ReadError(c)
    \/ \E c \in Conns : StopStats(c)
    \/ \E c \in Conns : Deregister(c)
    \/ \E c \in Conns : StopPing(c)

Spec == Init /\ [][Next]_vars

\* positions of a handler inside its read loop
ReadStates == {"read", "rxok", "dntxed", "reply", "replying"}

InReadLoop(c) == hpc[c] \in ReadStates

\* C1: there are never two accepted connections for the same EUI that are
\* both in the gateway read loop at the same time.
C1_OneReaderPerEUI ==
    \A c, d \in Conns : (c # d /\ InReadLoop(c) /\ InReadLoop(d)) => ceui[c] # ceui[d]

\* the step by which handler c leaves its existing-connection check
LeavesCheck(c) == hpc[c] = "get" /\ hpc'[c] # "get"

\* everything of the connections other than c stays as it is
OthersUntouched(c) == \A d \in Conns \ {c} : hpc'[d] = hpc[d] /\ sock'[d] = sock[d]

\* C2: a connection attempt for an EUI whose registry entry holds a live
\* connection is rejected: it is closed without ever reading a message, and its
\* rejection and its close leave the registry, the stats loops, and the
\* incumbent's socket and handler as they are.
C2_RejectedWhileRegistered ==
    [][\A c \in Conns :
         /\ (LeavesCheck(c) /\ ExistingLive(gateways, ceui[c]))
              => /\ hpc'[c] = "rejected"
                 /\ gateways' = gateways /\ sloop' = sloop /\ sock' = sock
                 /\ OthersUntouched(c)
         /\ hpc[c] = "rejected"
              => /\ hpc'[c] \in {"rejected", "refused"}
                 /\ hpc'[c] = "refused"
                      => /\ sock'[c] = "closed"
                         /\ gateways' = gateways /\ sloop' = sloop
                         /\ OthersUntouched(c)
         /\ hpc[c] = "refused" => hpc'[c] = "refused"]_vars

\* C2 witness: the attempt was refused and closed, the incumbent of the same
\* EUI is still registered and has just had an uplink delivered
C2_Witness ==
    \E c, d \in Conns :
        /\ c # d /\ ceui[c] = ceui[d]
        /\ hpc[c] = "refused" /\ sock[c] = "closed"
        /\ gateways[ceui[d]] = Entry(d) /\ sock[d] = "open"
        /\ emit = [kind |-> "uplink", conn |-> d, gw |-> ceui[d]]

\* C3: a handler whose registry.set failed with already-connected does not
\* enter the read loop.
C3_FailedSetNeverReads == \A c \in Conns : setErr[c] => ~InReadLoop(c)

\* Socket writes on the connections of one gateway: the ping task, the replies
\* of the read loop, downlinks and raw commands. The clock stands still.
NextWrite ==
    \/ Start
    \/ \E c \in Conns : Accept(c, "aa")
    \/ \E c \in Conns : CheckExisting(c)
    \/ \E c \in Conns : Register(c)
    \/ \E c \in Conns, t \in {"version", "timesync"} : ReadMessage(c, Frame(t, 0, TRUE))
    \/ \E c \in Conns : ReplyStart(c)
    \/ \E c \in Conns, ok \in BOOLEAN : ReplyEnd(c, ok)
    \/ \E c \in Conns : ReadError(c)
    \/ \E c \in Conns : StopStats(c)
    \/ \E c \in Conns : Deregister(c)
    \/ \E c \in Conns : StopPing(c)
    \/ \E c \in Conns : PingStart(c)
    \/ \E c \in Conns, ok \in BOOLEAN : PingEnd(c, ok)
    \/ DlBegin("aa", 1, "d1", 0, TRUE)
    \/ DlGet
    \/ DlSend(TRUE)
    \/ \E ok \in BOOLEAN : DlWriteEnd(ok)
    \/ RawBegin("aa", "text")
    \/ RawSend(TRUE)
    \/ \E ok \in BOOLEAN : RawWriteEnd(ok)

SpecWrite == Init /\ [][NextWrite]_vars

\* C4: at most one task is between the start and the end of a write on any
\* one socket.
C4_WritesSerialised == \A c \in Conns : Cardinality(writers[c]) <= 1

\* Downlinks and raw commands over connects and disconnects of several
\* gateways. The clock stands still.
NextDown ==
    \/ Start
    \/ \E c \in Conns, e \in EUI : Accept(c, e)
    \/ \E c \in Conns : CheckExisting(c)
    \/ \E c \in Conns : Register(c)
    \/ \E c \in Conns : ReadError(c)
    \/ \E c \in Conns : StopStats(c)
    \/ \E c \in Conns : Deregister(c)
    \/ \E c \in Conns : StopPing(c)
    \/ \E g \in EUI, encOk \in BOOLEAN : DlBegin(g, 1, "d1", 0, encOk)
    \/ DlGet
    \/ \E errIsNil \in BOOLEAN : DlSend(errIsNil)
    \/ \E ok \in BOOLEAN : DlWriteEnd(ok)
    \/ \E g \in EUI, pl \in {"empty", "text", "bin"} : RawBegin(g, pl)
    \/ \E errIsNil \in BOOLEAN : RawSend(errIsNil)
    \/ \E ok \in BOOLEAN : RawWriteEnd(ok)

SpecDown == Init /\ [][NextDown]_vars

\* the step by which SendDownlinkFrame begins its write
DlWriteBegins == dl.pc = "lock" /\ dl'.pc = "write"

\* C5 as stated: when SendDownlinkFrame begins its write, the socket it writes
\* to is the one the registry holds for the gateway id at that moment.
C5_WrittenToCurrentSocket ==
    [][DlWriteBegins => gateways[dl.gw] = Entry(dl.h.conn)]_vars

\* connection c went through a successful gateways.set
WasRegistered(c) ==
    /\ ~setErr[c]
    /\ hpc[c] \in ReadStates \cup {"ret", "dereg", "wrapdone", "closed"}

\* C5 amended: SendDownlinkFrame for gateway id X writes to the socket of the
\* entry the registry held for X when the call looked it up, a connection
\* that registered under X, and to no other socket.
C5_WrittenToLookedUpSocket ==
    /\ [](\A c \in Conns : W("dl", 0) \in writers[c]
              => c = dl.h.conn /\ ceui[c] = dl.gw /\ WasRegistered(c))
    /\ [][/\ (dl.pc = "get" /\ dl'.pc = "lock")
               => dl'.gw = dl.gw /\ dl'.h = RegGet(gateways, dl.gw)
          /\ DlWriteBegins
               => /\ dl'.h = dl.h /\ dl'.gw = dl.gw
                  /\ \A c \in Conns : W("dl", 0) \in writers'[c] <=> c = dl.h.conn]_vars

\* C5 witness: a downlink was written to the socket of its gateway while a
\* connection of another gateway is registered
C5_Witness ==
    /\ emit.kind = "dlret" /\ emit.lookup = "written"
    /\ ceui[emit.to] = emit.gw
    /\ \E d \in Conns : ceui[d] # emit.gw /\ gateways[ceui[d]] = Entry(d) /\ sock[d] = "open"

\* no downlink write is under way on any socket
NoDlWrite(w) == \A c \in Conns : W("dl", 0) \notin w[c]

\* C8: SendDownlinkFrame for an EUI without a registry entry returns an error
\* and writes nothing; a write on a closed socket returns an error after that
\* one attempt, and the call is over.
C8_ErrorsReturned ==
    [][/\ (dl.pc = "get" /\ dl' # dl /\ ~gateways[dl.gw].present)
            => /\ emit' = Returned("dlret", dl.gw, "notfound", 0, "err", NilConn)
               /\ writers' = writers /\ dl' = IdleDl
       /\ (dl.pc = "write" /\ dl' # dl /\ sock[dl.h.conn] # "open")
            => /\ emit'.kind = "dlret" /\ emit'.res = "err" /\ emit'.attempts = 1
               /\ NoDlWrite(writers') /\ dl' = IdleDl]_vars

\* C8 witness: a downlink for a gateway without an entry has just returned,
\* while another gateway is connected
C8_Witness ==
    /\ emit.kind = "dlret" /\ emit.lookup = "notfound"
    /\ ~gateways[emit.gw].present
    /\ \E d \in Conns : gateways[ceui[d]] = Entry(d) /\ sock[d] = "open"

\* C9: with an entry that holds no connection, SendDownlinkFrame and
\* RawPacketForwarderCommand return an error.
C9_NilConnIsAnError ==
    (emit.kind \in {"dlret", "rawret"} /\ emit.lookup = "nil") => emit.res = "err"

\* The token cache over time: one gateway, downlinks to it while connected with
\* chosen and with random tokens (the cache key holds no gateway id, so the
\* downlinks of other gateways act on it like these), dntxed frames, the stats
\* loop that the clock waits for, the janitor.
NextDiid ==
    \/ Start
    \/ Accept(1, "aa")
    \/ CheckExisting(1)
    \/ Register(1)
    \/ \E d \in {1, 2} : ReadMessage(1, Frame("dntxed", d, TRUE))
    \/ \E convOk \in BOOLEAN : HandleDntxed(1, convOk)
    \/ /\ Cardinality(sent) < MaxSent
       /\ ExistingLive(gateways, "aa")
       /\ \E tok \in {0, 1}, id \in DownIds, r \in {1, 2} : DlBegin("aa", tok, id, r, TRUE)
    \/ DlGet
    \/ DlSend(TRUE)
    \/ DlWriteEnd(TRUE)
    \/ \E l \in Loops : StatsReadRx(l)
    \/ \E l \in Loops : StatsReadRest(l)
    \/ \E l \in Loops : StatsFlush(l)
    \/ Tick
    \/ JanitorDiid

\* the backend constructed for normal mode
InitNormal == Init /\ ~singleMode

SpecDiid == InitNormal /\ [][NextDiid]_vars

\* C6: a dntxed frame that carries the token of a downlink sent before it and
\* arrives within the minute after that downlink is acknowledged with the
\* downlink id of that downlink.
C6_AckCarriesDownlinkId ==
    emit.kind = "ack"
        => \A s \in emit.after : now <= s.at + DiidTTL => emit.id = s.id

\* C7: a dntxed frame whose token the cache does not hold (never stored, or
\* expired) and that converts is acknowledged once, without a downlink id,
\* and the connection stays as it is: handler back at its read, socket, ping
\* task and registry untouched.
C7_MissStillAcked ==
    [][\A c \in Conns :
         (/\ hpc[c] = "dntxed" /\ hpc'[c] # "dntxed"
          /\ ~CacheFound(diidCache, cur[c].diid, now)
          /\ emit'.kind # "dropped")
            => /\ emit' = [kind |-> "ack", conn |-> c, gw |-> ceui[c],
                           diid |-> cur[c].diid, id |-> NoId, after |-> cur[c].after]
               /\ hpc'[c] = "read"
               /\ sock' = sock /\ ping' = ping /\ gateways' = gateways]_vars

\* C7 witness: the ack without a downlink id answers a token that was sent
\* and has expired
C7_Witness ==
    /\ emit.kind = "ack" /\ emit.id = NoId
    /\ emit.after # {}
    /\ \A s \in sent : s.token = emit.diid => now > s.at + DiidTTL
    /\ hpc[emit.conn] = "read" /\ sock[emit.conn] = "open"

\* The tx counters over time: one gateway connected, downlinks to it, dntxed
\* frames from it, its stats loop, the janitor.
NextStats ==
    \/ Start
    \/ Accept(1, "aa")
    \/ CheckExisting(1)
    \/ Register(1)
    \/ ReadMessage(1, Frame("dntxed", 1, TRUE))
    \/ HandleDntxed(1, TRUE)
    \/ bState = "running" /\ DlBegin("aa", 1, "d1", 0, TRUE)
    \/ DlGet
    \/ DlSend(TRUE)
    \/ \E ok \in BOOLEAN : DlWriteEnd(ok)
    \/ \E l \in Loops : StatsReadRx(l)
    \/ \E l \in Loops : StatsReadRest(l)
    \/ \E l \in Loops : StatsFlush(l)
    \/ Tick
    \/ JanitorStats

SpecStats == Init /\ [][NextStats]_vars

\* C10: with k downlinks sent to a gateway and m dntxed frames received from
\* it since the last flush, none racing a flush, its GatewayStats event reports
\* TxPacketsReceived = k and TxPacketsEmitted = m.
C10_TxCountsReported ==
    (emit.kind = "stats" /\ ~emit.raced) => (emit.tx = emit.k /\ emit.txOK = emit.m)

\* The rx counters over time: one gateway connecting and disconnecting, uplinks
\* of the three kinds, decodable or not, its stats loop, the janitor.
NextUp ==
    \/ Start
    \/ Accept(1, "aa")
    \/ CheckExisting(1)
    \/ Register(1)
    \/ \E t \in UplinkTypes, ok \in BOOLEAN : ReadMessage(1, Frame(t, 0, ok))
    \/ HandleUplink(1)
    \/ ReadError(1)
    \/ StopStats(1)
    \/ Deregister(1)
    \/ StopPing(1)
    \/ \E l \in Loops : StatsReadRx(l)
    \/ \E l \in Loops : StatsReadRest(l)
    \/ \E l \in Loops : StatsFlush(l)
    \/ Tick
    \/ JanitorStats

SpecUp == Init /\ [][NextUp]_vars

NextUp2 ==
    \/ Start
    \/ \E c \in Conns : Accept(c, "aa")
    \/ \E c \in Conns : CheckExisting(c)
    \/ \E c \in Conns : Register(c)
    \/ ReadMessage(1, Frame("updf", 0, TRUE))
    \/ HandleUplink(1)
    \/ \E l \in Loops : StatsReadRx(l)
    \/ \E l \in Loops : StatsReadRest(l)
    \/ \E l \in Loops : StatsFlush(l)
    \/ Tick

SpecUp2 == InitNormal /\ [][NextUp2]_vars

\* C12: over a run the RxPacketsReceived values of a gateway's GatewayStats
\* events never add up to more than the uplinks it delivered, and they add up
\* to less only when an uplink was counted while a flush was between its read
\* and its delete, or was unflushed when the gateway's loop stopped.
C12_SumWithinUplinks ==
    \A e \in EUI :
        /\ since[e].sum <= since[e].all
        /\ (emit.kind = "stats" /\ emit.gw = e /\ ~since[e].gap) => since[e].sum = since[e].all

\* Single mode: the permanent stats loop with a failing or succeeding StatsID,
\* one connection of either EUI coming and going with uplinks, start and stop.
InitSingle == Init /\ singleMode

NextSingle ==
    \/ Start
    \/ Stop
    \/ \E e \in EUI : Accept(1, e)
    \/ CheckExisting(1)
    \/ Register(1)
    \/ ReadMessage(1, Frame("updf", 0, TRUE))
    \/ HandleUplink(1)
    \/ ReadError(1)
    \/ Deregister(1)
    \/ StopPing(1)
    \/ StatsReadRx(0)
    \/ StatsSkip(0)
    \/ StatsReadRest(0)
    \/ StatsFlush(0)
    \/ Tick

SpecSingle == InitSingle /\ [][NextSingle]_vars

\* the stats goroutine is scheduled: a tick it can take is taken, a flush it
\* has begun is finished
SpecSingleFair ==
    /\ SpecSingle
    /\ WF_vars(StatsReadRx(0) \/ StatsSkip(0))
    /\ WF_vars(StatsReadRest(0))
    /\ WF_vars(StatsFlush(0))

\* from Start on the loop of the configured EUI is running
C13_LoopRuns ==
    bState # "new" => (sloop[0].st \in {"idle", "r1", "r2"} /\ sloop[0].gw = singleGwID)

\* an event answers exactly one tick and is for the configured EUI; without
\* traffic since the last event its four counters are zero
C13_EventStep ==
    emit'.kind = "stats" =>
        /\ emit'.gw = singleGwID
        /\ sloop[0].owed = "event" /\ sloop'[0].owed = "none"
        /\ (emit'.n = 0 /\ emit'.k = 0 /\ emit'.m = 0 /\ ~emit'.raced)
               => (emit'.rx = 0 /\ emit'.rxOK = 0 /\ emit'.tx = 0 /\ emit'.txOK = 0)

\* the tick of an interval is answered before it is lost
C13_Answered == (sloop[0].owed = "event") ~> (sloop[0].owed # "event")

\* C13 (as the code has it): in single mode, from Start on, connected or not,
\* each elapsed stats interval brings one GatewayStats event for the configured
\* EUI, except an interval whose StatsID could not be generated, which brings
\* none; no interval brings two, and without traffic the four counters are zero.
C13_OnePerIntervalUnlessIdFails ==
    /\ []C13_LoopRuns
    /\ [][C13_EventStep]_vars
    /\ [][(now' # now /\ bState # "new") => sloop[0].owed \in {"none", "skipped"}]_vars
    /\ C13_Answered

\* C13 as stated: every elapsed stats interval has brought its event
C13_OnePerInterval ==
    [][(now' # now /\ bState # "new") => sloop[0].owed = "none"]_vars

\* C13 witness: a second event for the configured EUI with no gateway ever connected
C13_Witness ==
    /\ emit.kind = "stats" /\ emit.gw = singleGwID
    /\ \A c \in Conns : hpc[c] = "idle"
    /\ now >= 2

\* C14: in single mode, once Stop has returned, the permanent stats loop
\* eventually exits (and so emits no further GatewayStats event).
C14_LoopExitsAfterStop ==
    (bState = "stopped") ~> (sloop[0].st \in {"off", "stopped"})

\* single mode, from Start on: the configured EUI has its registry key
C15_KeyKept ==
    (singleMode /\ bState # "new") => RegGet(gateways, singleGwID).present

\* single mode: a disconnect leaves the key with a null connection; a
\* connection for the configured EUI that finds no live connection is
\* accepted, and one that still finds none at its set is registered and reads
C15_CycleStep ==
    singleMode => \A c \in Conns :
        /\ (hpc[c] = "ret" /\ hpc'[c] = "wrapdone")
               => RegGet(gateways', singleGwID) = Entry(NilConn)
        /\ (hpc[c] = "get" /\ hpc'[c] # "get" /\ ceui[c] = singleGwID
                /\ ~ExistingLive(gateways, singleGwID))
               => hpc'[c] = "set"
        /\ (hpc[c] = "set" /\ hpc'[c] # "set" /\ ~ExistingLive(gateways, singleGwID))
               => (RegGet(gateways', singleGwID) = Entry(c) /\ hpc'[c] = "read")

\* C15: in single mode the disconnect of the configured gateway keeps its
\* registry key with a null connection, and a later connection for that EUI is
\* accepted and registered, cycle after cycle.
C15_ReconnectAfterReset == []C15_KeyKept /\ [][C15_CycleStep]_vars

\* C15 witness: the second connection registered after the first was reset and closed
C15_Witness ==
    /\ singleMode
    /\ hpc[1] = "closed" /\ ceui[1] = singleGwID
    /\ hpc[2] = "read" /\ RegGet(gateways, singleGwID) = Entry(2)

\* a connection whose URL EUI is not the one single mode is configured for
Foreign(c) == singleMode /\ hpc[c] # "idle" /\ ceui[c] # singleGwID

\* such a connection never gets past the check and ends closed
C16_NeverServed ==
    \A c \in Conns : Foreign(c) =>
        /\ hpc[c] \in {"get", "ignored", "refused"}
        /\ cur[c] = NoMsg /\ ~setErr[c]
        /\ hpc[c] = "refused" => (sock[c] = "closed" /\ ping[c] = "stopped")

\* and none of its steps touches the registry, a stats loop or the backend
C16_NoEffectStep ==
    \A c \in Conns : (Foreign(c)' /\ hpc'[c] # hpc[c]) =>
        /\ gateways' = gateways
        /\ sloop' = sloop
        /\ bState' = bState
        /\ statsCache' = statsCache
        /\ emit' = NoEvent

\* C16: in single mode a connection whose EUI differs from the configured one
\* is closed without effect: registry and stats loops unchanged, none of its
\* messages dispatched, the backend still running.
C16_ForeignIgnored == []C16_NeverServed /\ [][C16_NoEffectStep]_vars

\* C16 witness: a foreign connection refused while the configured gateway is
\* connected and the backend runs
C16_Witness ==
    /\ \E c \in Conns : Foreign(c) /\ hpc[c] = "refused"
    /\ ExistingLive(gateways, singleGwID)
    /\ bState = "running"

\* Connections from their requests: URL segment and certificate of every kind.
NextIdent ==
    \/ Start
    \/ Stop
    \/ \E c \in Conns, seg \in Texts, cn \in Certs : Connect(c, seg, cn)
    \/ \E c \in Conns : CheckExisting(c)
    \/ \E c \in Conns : Register(c)
    \/ \E c \in Conns : ReadMessage(c, Frame("updf", 0, TRUE))
    \/ \E c \in Conns : HandleUplink(c)
    \/ \E c \in Conns : ReadError(c)
    \/ \E c \in Conns : StopStats(c)
    \/ \E c \in Conns : Deregister(c)
    \/ \E c \in Conns : StopPing(c)

SpecIdent == Init /\ [][NextIdent]_vars

\* the request fails the identity check: its URL segment is no EUI, or it
\* presents a certificate whose Common Name is no EUI or another EUI
FailsIdentity(seg, cn) ==
    \/ ~UnmarshalText(seg).ok
    \/ /\ cn # NoCert
       /\ \/ ~UnmarshalText(cn).ok
          \/ UnmarshalText(cn).eui # UnmarshalText(seg).eui

\* what the steps of such a connection leave alone
C17_Untouched ==
    /\ gateways' = gateways
    /\ sloop' = sloop
    /\ statsCache' = statsCache
    /\ emit' = NoEvent

C17_RefusedStep ==
    /\ \A c \in Conns, seg \in Texts, cn \in Certs :
           (Connect(c, seg, cn) /\ FailsIdentity(seg, cn))
               => (hpc'[c] = "badid" /\ C17_Untouched)
    /\ \A c \in Conns :
           (hpc[c] = "badid" /\ hpc'[c] # "badid")
               => (hpc'[c] = "refused" /\ sock'[c] = "closed" /\ C17_Untouched)

\* C17: a connection failing the identity check (URL segment not an EUI, or a
\* certificate whose Common Name does not parse to the URL's EUI) is closed
\* with no registry entry created or changed, no stats loop started and no
\* upstream event.
C17_BadIdentityClosed ==
    /\ [](\A c \in Conns : hpc[c] = "badid" => cur[c] = NoMsg)
    /\ [][C17_RefusedStep]_vars

\* C17 witness: a connection refused for its identity while a gateway is connected
C17_Witness ==
    /\ \E c \in Conns : hpc[c] = "badid"
    /\ \E e \in EUI : ExistingLive(gateways, e)

\* Router-info requests beside gateway connections: each connection is of one
\* kind or the other; certificates, hosts and routers of every kind.
NextInfo ==
    \/ Start
    \/ Stop
    \/ \E c \in Conns, e \in EUI : Accept(c, e)
    \/ \E c \in Conns : CheckExisting(c)
    \/ \E c \in Conns : Register(c)
    \/ \E c \in Conns : ReadError(c)
    \/ \E c \in Conns : StopStats(c)
    \/ \E c \in Conns : Deregister(c)
    \/ \E c \in Conns : RouterInfoAccept(c)
    \/ \E c \in Conns, readOk, tls \in BOOLEAN, router \in EUI, host \in Hosts, cn \in Certs :
           RouterInfoRead(c, readOk, router, host, tls, cn)
    \/ \E c \in Conns, ok \in BOOLEAN : RouterInfoWriteEnd(c, ok)
    \/ \E c \in Conns : StopPing(c)
    \/ \E c \in Conns : PingStart(c)
    \/ \E c \in Conns, ok \in BOOLEAN : PingEnd(c, ok)

SpecInfo == Init /\ [][NextInfo]_vars

\* positions of a router-info handler
InfoStates == {"ri_read", "ri_write"}

C18_InfoStep ==
    \A c \in Conns :
        \* a response frame is begun only by the handler that has just read its
        \* request, with the write deadline set
        /\ (emit'.kind = "routerinfo" /\ emit'.conn = c)
               => (hpc[c] = "ri_read" /\ hpc'[c] = "ri_write" /\ emit'.deadline
                   /\ W("h", c) \in writers'[c] /\ W("h", c) \notin writers[c])
        \* a request read is answered by that frame
        /\ (hpc[c] = "ri_read" /\ hpc'[c] = "ri_write")
               => (emit'.kind = "routerinfo" /\ emit'.conn = c)
        \* after the write the handler returns; it never reads again
        /\ (hpc[c] = "ri_write" /\ hpc'[c] # "ri_write") => hpc'[c] = "wrapdone"
        /\ (hpc[c] # "idle" /\ hpc[c] # "ri_read") => hpc'[c] # "ri_read"
        \* and none of its steps touches the registry or a stats loop
        /\ (hpc[c] \in InfoStates /\ hpc'[c] # hpc[c])
               => (gateways' = gateways /\ sloop' = sloop)

\* C18: the router-info handler, having read one request, writes exactly one
\* response frame with the write deadline set, then returns so that the
\* connection is closed; it reads no second message and leaves the registry alone.
C18_OneResponse ==
    /\ [](\A c \in Conns : hpc[c] \in InfoStates => (cur[c] = NoMsg /\ ~setErr[c]))
    /\ [][C18_InfoStep]_vars

\* C18 witness: a router-info connection answered and closed while a gateway
\* is registered
C18_Witness ==
    /\ \E c \in Conns : hpc[c] = "closed" /\ ~(\E e \in EUI : RegGet(gateways, e).conn = c)
                        /\ ~setErr[c] /\ sloop[c].st = "off"
    /\ \E e \in EUI : ExistingLive(gateways, e)
    /\ ~singleMode

\* whether the presented certificate does not name the requested router
CertMismatch(router, cn) ==
    cn # NoCert /\ (~UnmarshalText(cn).ok \/ UnmarshalText(cn).eui # router)

\* C19: in the router-info response, with a client certificate whose Common
\* Name does not parse to the requested router EUI, uri is empty and error is
\* not; in every other case error is empty and uri is
\* <scheme>://<host>/gateway/<eui> for the requested EUI.
C19_UriOrError ==
    [][\A c \in Conns, tls \in BOOLEAN, router \in EUI, host \in Hosts, cn \in Certs :
          RouterInfoRead(c, TRUE, router, host, tls, cn) =>
              /\ emit'.resp.router = router
              /\ IF CertMismatch(router, cn)
                 THEN emit'.resp.uri = <<>> /\ emit'.resp.error # <<>>
                 ELSE /\ emit'.resp.error = <<>>
                      /\ emit'.resp.uri = <<Scheme(tls), "://", host, "/gateway/", router>>
              /\ (emit'.resp.uri # <<>>) <=> (emit'.resp.error = <<>>)]_vars

\* C19 witness: a response with an error for a certificate naming another
\* EUI in upper-case hex
C19_Witness ==
    /\ emit.kind = "routerinfo"
    /\ emit.resp.uri = <<>>
    /\ emit.resp.error = <<"certificate CommonName ", "AA", " does not match router ", "bb">>

\* C20: the router-config frame answering a version message received on
\* connection c is written to c's own socket and to no other, whatever
\* connects and disconnects for that EUI come in between.
C20_ConfigToOwnSocket ==
    \A c \in Conns, d \in Conns :
        (cur[c].type = "version" /\ W("h", c) \in writers[d]) => d = c

\* Timesync requests on the connections of one EUI, with their lifecycle.
NextSync ==
    \/ Start
    \/ \E c \in Conns : Accept(c, "aa")
    \/ \E c \in Conns : CheckExisting(c)
    \/ \E c \in Conns : Register(c)
    \/ \E c \in Conns, tx \in TxTimes, ok \in BOOLEAN : ReadMessage(c, TimeSync(tx, ok))
    \/ \E c \in Conns : ReplyStart(c)
    \/ \E c \in Conns, ok \in BOOLEAN : ReplyEnd(c, ok)
    \/ \E c \in Conns : ReadError(c)
    \/ \E c \in Conns : StopStats(c)
    \/ \E c \in Conns : Deregister(c)
    \/ \E c \in Conns : StopPing(c)

SpecSync == Init /\ [][NextSync]_vars

\* C21: every timesync request received on a gateway connection is answered
\* by exactly one timesync response written to that gateway's socket, with the
\* request's TxTime in it unchanged.
C21_TimeSyncAnswered ==
    [][\A c \in Conns :
          /\ \A tx \in TxTimes : ReadMessage(c, TimeSync(tx, TRUE)) => hpc'[c] = "reply"
          /\ (hpc[c] = "reply" /\ cur[c].type = "timesync" /\ hpc'[c] # "reply")
                 => /\ hpc'[c] = "replying"
                    /\ emit'.kind = "reply" /\ emit'.conn = c
                    /\ ceui[emit'.to] = ceui[c] /\ W("h", c) \in writers'[emit'.to]
                    /\ emit'.body.msgtype = "timesync"
                    /\ emit'.body.txtime = cur[c].txtime
          /\ (emit'.kind = "reply" /\ emit'.conn = c) => hpc[c] = "reply"]_vars

\* Frames of every kind on the connections of one EUI, decodable or not.
MsgTypes == {"version", "timesync", "dntxed"} \cup UplinkTypes

NextFrames ==
    \/ Start
    \/ \E c \in Conns : Accept(c, "aa")
    \/ \E c \in Conns : CheckExisting(c)
    \/ \E c \in Conns : Register(c)
    \/ \E c \in Conns, t \in MsgTypes, ok \in BOOLEAN : ReadMessage(c, Frame(t, 1, ok))
    \/ \E c \in Conns : ReadBadFrame(c)
    \/ \E c \in Conns, m \in RawFrames, idOk \in BOOLEAN : ReadRaw(c, m, idOk)
    \/ \E c \in Conns : HandleUplink(c)
    \/ \E c \in Conns, convOk \in BOOLEAN : HandleDntxed(c, convOk)
    \/ \E c \in Conns : ReplyStart(c)
    \/ \E c \in Conns, ok \in BOOLEAN : ReplyEnd(c, ok)
    \/ \E c \in Conns : ReadError(c)
    \/ \E c \in Conns : StopStats(c)
    \/ \E c \in Conns : Deregister(c)
    \/ \E c \in Conns : StopPing(c)

SpecFrames == Init /\ [][NextFrames]_vars

\* what the handling of an undecodable frame leaves as it was
C22_Kept(c) ==
    /\ sock' = sock
    /\ gateways' = gateways
    /\ ping' = ping
    /\ sloop' = sloop
    /\ emit' = NoEvent

\* C22: a text frame that fails decoding (no JSON, no readable msgtype, or a
\* payload that does not decode into the struct of its msgtype) neither closes
\* the connection nor deregisters the gateway; no upstream event is emitted
\* for it and the handler goes on to read the next frame.
C22_DecodeFailureContinues ==
    [][\A c \in Conns :
          /\ ReadBadFrame(c) => (C22_Kept(c) /\ hpc'[c] = "read")
          /\ \A t \in MsgTypes :
                 ReadMessage(c, Frame(t, 1, FALSE))
                     => (C22_Kept(c) /\ hpc'[c] = IF t \in UplinkTypes THEN "rxok" ELSE "read")
          /\ (hpc[c] = "rxok" /\ ~cur[c].ok /\ hpc'[c] # "rxok")
                 => (C22_Kept(c) /\ hpc'[c] = "read")]_vars

\* C22 witness: an uplink that did not decode under handling, its counters
\* half bumped, the gateway registered and its socket open
C22_Witness ==
    \E c \in Conns :
        /\ hpc[c] = "rxok" /\ cur[c].type = "updf" /\ ~cur[c].ok
        /\ sock[c] = "open"
        /\ RegGet(gateways, "aa") = Entry(c)

\* what the handling of a raw frame leaves as it was
C23_Kept(c) ==
    /\ statsCache' = statsCache
    /\ sock' = sock
    /\ gateways' = gateways
    /\ hpc'[c] = "read"

\* C23 (as the code has it): every binary frame, and every text frame of a
\* msgtype the dispatch does not know, produces one RawPacketForwarderEvent
\* with the connection's gateway id and the frame's bytes unchanged, or none
\* when no RawID could be generated; it changes no stats counter and leaves
\* the connection open.
C23_RawForwardedUnlessIdFails ==
    [][\A c \in Conns, m \in RawFrames :
          /\ ReadRaw(c, m, TRUE)
                 => (emit' = [kind |-> "rawevent", gw |-> ceui[c], payload |-> m.bytes]
                     /\ C23_Kept(c))
          /\ ReadRaw(c, m, FALSE) => (emit' = NoEvent /\ C23_Kept(c))]_vars

\* C23 as stated: every such frame produces its event
C23_RawForwarded ==
    [][\A c \in Conns, m \in RawFrames, idOk \in BOOLEAN :
          ReadRaw(c, m, idOk)
              => emit' = [kind |-> "rawevent", gw |-> ceui[c], payload |-> m.bytes]]_vars

\* C23 witness: the event of a binary frame, the connection at its read
C23_Witness ==
    /\ emit.kind = "rawevent" /\ emit.payload = "b2"
    /\ \E c \in Conns : hpc[c] = "read" /\ sock[c] = "open" /\ ceui[c] = emit.gw

\* positions of a handler with a frame under dispatch
Dispatching == {"rxok", "dntxed", "reply", "replying"}

\* a handler is inside a dispatch exactly while it holds the frame it read
\* last, and it writes a reply only from there
C24_OneFrameAtATime ==
    \A c \in Conns :
        /\ (hpc[c] \in Dispatching) <=> (cur[c] # NoMsg)
        /\ \A d \in Conns : W("h", c) \in writers[d] => hpc[c] = "replying"

\* a callback or reply of connection c comes from the frame under dispatch,
\* and the next frame is read only when that dispatch is over
C24_OrderStep ==
    \A c \in Conns :
        /\ (emit'.kind \in {"uplink", "ack", "dropped", "reply"} /\ emit'.conn = c)
               => (hpc[c] \in Dispatching /\ cur[c] # NoMsg
                   /\ (cur'[c] = cur[c] \/ cur'[c] = NoMsg))
        /\ (cur'[c] # NoMsg /\ cur[c] # cur'[c])
               => (hpc[c] = "read" /\ cur[c] = NoMsg
                   /\ \A d \in Conns : W("h", c) \notin writers[d])

\* C24: the frames of one connection are processed in arrival order: all the
\* callbacks and replies caused by a frame happen before any caused by the
\* next frame of that connection.
C24_ArrivalOrder == []C24_OneFrameAtATime /\ [][C24_OrderStep]_vars

\* C24 witness: the first connection writing a reply after an uplink of its
\* own went through, the second never opened
C24_Witness ==
    /\ hpc[1] = "replying" /\ hpc[2] = "idle"
    /\ since[ceui[1]].all = 1

\* Two gateways connected, frames arriving from both, downlinks to both.
NextBusy ==
    \/ Start
    \/ Accept(1, "aa")
    \/ Accept(2, "bb")
    \/ \E c \in Conns : CheckExisting(c)
    \/ \E c \in Conns : Register(c)
    \/ \E c \in Conns, t \in {"updf", "dntxed", "version", "timesync"} :
           ReadMessage(c, Frame(t, 1, TRUE))
    \/ \E c \in Conns : HandleUplink(c)
    \/ \E c \in Conns : HandleDntxed(c, TRUE)
    \/ \E c \in Conns : ReplyStart(c)
    \/ \E c \in Conns : ReplyEnd(c, TRUE)
    \/ \E g \in EUI : ExistingLive(gateways, g) /\ DlBegin(g, 1, "d1", 0, TRUE)
    \/ DlGet
    \/ DlSend(TRUE)
    \/ \E ok \in BOOLEAN : DlWriteEnd(ok)

SpecBusy == Init /\ [][NextBusy]_vars

\* C25: while a write toward one gateway is in progress, a frame that arrived
\* from another gateway is still dispatched and a downlink to that other
\* gateway can still be written.
C25_OthersNotBlocked ==
    \A c \in Conns :
        (dl.pc = "write" /\ ceui[c] # dl.gw /\ RegGet(gateways, ceui[c]) = Entry(c)) =>
            /\ hpc[c] = "rxok" => ENABLED HandleUplink(c)
            /\ hpc[c] = "reply" => ENABLED ReplyStart(c)
            /\ hpc[c] = "dntxed" => ENABLED HandleDntxed(c, TRUE)
            /\ since[ceui[c]].k < MaxDl => ENABLED DlBegin(ceui[c], 1, "d1", 0, TRUE)

\* One gateway connection with its ping task and its stats loop, pings
\* failing or not, over time.
NextPing ==
    \/ Start
    \/ Accept(1, "aa")
    \/ CheckExisting(1)
    \/ Register(1)
    \/ ReadMessage(1, Frame("updf", 1, TRUE))
    \/ HandleUplink(1)
    \/ ReadError(1)
    \/ StopStats(1)
    \/ Deregister(1)
    \/ StopPing(1)
    \/ PingStart(1)
    \/ \E ok \in BOOLEAN : PingEnd(1, ok)
    \/ \E l \in Loops : StatsReadRx(l)
    \/ \E l \in Loops : StatsReadRest(l)
    \/ \E l \in Loops : StatsFlush(l)
    \/ Tick

SpecPing == Init /\ [][NextPing]_vars

\* every task is scheduled; a read on a closed socket returns its error; a
\* write in progress returns (the write deadline); a task that comes back to
\* its select again and again with a sender waiting on done takes it
FairPing ==
    /\ \A c \in {1} :
           /\ WF_vars(CheckExisting(c))
           /\ WF_vars(Register(c))
           /\ WF_vars(sock[c] = "closed" /\ ReadError(c))
           /\ WF_vars(HandleUplink(c))
           /\ SF_vars(StopStats(c))
           /\ WF_vars(Deregister(c))
           /\ SF_vars(StopPing(c))
           /\ WF_vars(\E ok \in BOOLEAN : PingEnd(c, ok))
    /\ \A l \in {0, 1} :
           /\ WF_vars(StatsReadRx(l))
           /\ WF_vars(StatsReadRest(l))
           /\ WF_vars(StatsFlush(l))

SpecPingFair == SpecPing /\ FairPing

\* a handler that has not returned to websocketWrap's close
Serving(c) == hpc[c] \notin {"idle", "closed", "refused"}

\* C26: when a ping write fails on a gateway connection the connection is
\* closed, and eventually its read loop has exited, its registry entry is
\* removed (normal mode) or reset (single mode) and its tasks have stopped;
\* nothing reopens the connection or reads from it again.
C26_PingFailureCleansUp ==
    /\ \A c \in Conns :
           (sock[c] = "closed" /\ Serving(c))
               ~> (hpc[c] = "closed" /\ ping[c] = "stopped" /\ sloop[c].st \in {"off", "stopped"})
    /\ [][\A c \in Conns :
             /\ (ping[c] = "writing" /\ ping'[c] = "wait" /\ sock'[c] # "open") => sock'[c] = "closed"
             /\ sock[c] = "closed" => (sock'[c] = "closed" /\ (cur'[c] = cur[c] \/ cur'[c] = NoMsg))
             /\ (Serving(c) /\ hpc'[c] = "wrapdone" /\ hpc[c] # "wrapdone")
                    => RegGet(gateways', ceui[c]) = IF singleMode THEN Entry(NilConn) ELSE NoEntry]_vars

\* C26 witness: a connection closed by its ping task (websocketWrap has not
\* closed it yet), its handler returned and its entry deregistered
C26_Witness ==
    \E c \in Conns :
        /\ sock[c] = "closed" /\ hpc[c] = "wrapdone"
        /\ RegGet(gateways, ceui[c]).conn = NilConn
        /\ since[ceui[c]].all = 1


\* ------------------------------------------------------- read deadline
\* the pong handler websocketWrap installs, run by the connection's reader
\* while it waits for a frame: it pushes the read deadline forward
Pong(c) ==
    /\ hpc[c] \in {"read", "ri_read"}
    /\ sock[c] = "open"
    /\ rdl' = [rdl EXCEPT ![c] = Refreshed(now)]
    /\ emit' = NoEvent
    /\ UNCHANGED <<singleMode, singleGwID, bState, gateways, hpc, ceui, sock, ping, sloop,
                   muHeld, writers, cur, hh, setErr, dl, raw, diidCache, statsCache,
                   now, sent, since, call>>

\* c.ReadMessage() fails because the read deadline has passed: the read loop
\* returns
ReadDeadlineExceeded(c) ==
    /\ hpc[c] = "read"
    /\ sock[c] = "open"
    /\ now >= rdl[c].at
    /\ hpc' = [hpc EXCEPT ![c] = AfterReadError]
    /\ emit' = [kind |-> "readtimeout", conn |-> c]
    /\ UNCHANGED <<singleMode, singleGwID, bState, gateways, ceui, sock, ping, sloop,
                   muHeld, writers, cur, hh, setErr, dl, raw, diidCache, statsCache,
                   now, sent, since, rdl, call>>

\* Normal mode, one connection of gateway "aa": frames of every kind, pongs,
\* read timeouts, the stats loop and the clock.
NextDeadline ==
    \/ Start
    \/ Accept(1, "aa")
    \/ CheckExisting(1)
    \/ Register(1)
    \/ \E t \in {"updf", "version"}, ok \in BOOLEAN : ReadMessage(1, Frame(t, 0, ok))
    \/ ReadBadFrame(1)
    \/ \E idOk \in BOOLEAN : ReadRaw(1, [type |-> "binary", bytes |-> "b1"], idOk)
    \/ HandleUplink(1)
    \/ ReplyStart(1)
    \/ ReplyEnd(1, TRUE)
    \/ Pong(1)
    \/ ReadDeadlineExceeded(1)
    \/ StopStats(1)
    \/ Deregister(1)
    \/ StopPing(1)
    \/ \E l \in Loops : StatsReadRx(l)
    \/ \E l \in Loops : StatsReadRest(l)
    \/ \E l \in Loops : StatsFlush(l)
    \/ Tick

SpecDeadline == InitNormal /\ [][NextDeadline]_vars

\* a step in which connection c gets a frame of some kind from its read
FrameRead(c) ==
    \/ \E t \in MsgTypes, ok \in BOOLEAN : ReadMessage(c, Frame(t, 0, ok))
    \/ ReadBadFrame(c)
    \/ \E m \in RawFrames, idOk \in BOOLEAN : ReadRaw(c, m, idOk)

\* C27: the read deadline of a gateway connection is set to now + read-timeout
\* at the upgrade, at every frame read, of any kind, and at every pong; it
\* never moves backwards; and a read loop ends on a read timeout only when a
\* full read-timeout has passed since the connection last got a frame, a pong
\* or its upgrade.
C27_ReadDeadlineRefreshed ==
    [][\A c \in Conns :
          /\ (sock[c] = "none" /\ sock'[c] = "open") => rdl'[c].at = now + ReadTimeout
          /\ (FrameRead(c) \/ Pong(c)) => rdl'[c].at = now + ReadTimeout
          /\ rdl'[c].at >= rdl[c].at
          /\ (emit'.kind = "readtimeout" /\ emit'.conn = c)
                 => /\ now - rdl[c].seen >= ReadTimeout
                    /\ hpc[c] = "read" /\ hpc'[c] = "ret"]_vars

\* C27 witness: a read loop ended by a read timeout on a connection that got
\* uplinks, the last thing from its peer a full read-timeout ago and after
\* the start
C27_Witness ==
    /\ emit.kind = "readtimeout"
    /\ rdl[emit.conn].seen > 0
    /\ now = rdl[emit.conn].seen + ReadTimeout
    /\ since[ceui[emit.conn]].all > 0


\* ------------------------------------------------------- cleanup order
\* a handler that got past the existing-connection check and has not yet
\* handed the connection back to websocketWrap's close
Accepted(c) == hpc[c] \in {"set", "read", "rxok", "dntxed", "reply", "replying", "ret", "dereg", "wrapdone"}

\* C28 as stated: in normal mode an accepted gateway connection is cleaned up
\* in order: the stats loop is signalled to stop, then the registry entry is
\* removed, then the socket is closed; the entry is not removed before the
\* signal and the socket is not closed before the entry is removed.
C28_CleanupOrder ==
    [][\A c \in Conns :
          ~singleMode =>
              /\ (hpc[c] # "wrapdone" /\ hpc'[c] = "wrapdone")
                     => (sloop[c].st = "stopped" /\ sock[c] = "open")
              /\ (Accepted(c) /\ sock[c] = "open" /\ sock'[c] = "closed")
                     => hpc[c] = "wrapdone"]_vars

\* C28: in normal mode the handler of an accepted gateway connection cleans up
\* in order: the stats loop is signalled to stop, then the registry entry is
\* removed, then websocketWrap closes the socket; the entry is not removed
\* before the signal, and the socket is closed before the entry is removed
\* only by the ping task, when its ping write failed.
C28_CleanupOrderButPing ==
    [][\A c \in Conns :
          ~singleMode =>
              /\ (hpc[c] # "wrapdone" /\ hpc'[c] = "wrapdone") => sloop[c].st = "stopped"
              /\ (hpc[c] = "wrapdone" /\ hpc'[c] = "closed")
                     => (~RegGet(gateways, ceui[c]).present /\ sock'[c] = "closed")
              /\ (Accepted(c) /\ sock[c] = "open" /\ sock'[c] = "closed")
                     => (hpc[c] = "wrapdone" \/ ping[c] = "writing")]_vars

\* C28 witness: a normal-mode connection that delivered an uplink, fully
\* cleaned up: loop stopped, entry removed, socket closed by websocketWrap
C28_Witness ==
    \E c \in Conns :
        /\ ~singleMode
        /\ hpc[c] = "closed" /\ sock[c] = "closed" /\ ping[c] = "stopped"
        /\ sloop[c].st = "stopped"
        /\ ~RegGet(gateways, ceui[c]).present
        /\ since[ceui[c]].all > 0


\* ------------------------------------------------------- task lifetimes
\* the connection's handler has returned: websocketWrap is through
HandlerDone(c) == hpc[c] \in {"closed", "refused"}

\* by the time the handler has returned the ping task, and in normal mode the
\* stats loop started for the connection, have terminated
TasksGone ==
    \A c \in Conns :
        HandlerDone(c)
            => /\ ping[c] = "stopped"
               /\ (~singleMode => sloop[c].st \in {"off", "stopped"})

\* a handler whose read loop has ended, or that refuses the connection, gets
\* to its return: neither send on a done channel blocks forever
SignalsTaken ==
    \A c \in Conns :
        (hpc[c] \in {"ret", "rejected", "ignored", "badid"}) ~> HandlerDone(c)

\* a GatewayStats event for an EUI one of whose connections has returned comes
\* only while another connection of that EUI is being served
QuietAfterReturn ==
    emit'.kind = "stats"
        => \A c \in Conns :
               (ceui[c] = emit'.gw /\ HandlerDone(c))
                   => \E d \in Conns \ {c} : ceui[d] = emit'.gw /\ Serving(d)

\* C29 as stated: the ping task and (in normal mode) the stats loop of a
\* gateway connection have terminated by the time its handler has returned,
\* neither stop signal blocks forever, and after the return no GatewayStats
\* event is emitted for that EUI until it reconnects.
C29_TasksEndWithHandler ==
    /\ []TasksGone
    /\ SignalsTaken
    /\ [][QuietAfterReturn]_vars

\* C29: the ping task and (in normal mode) the stats loop of a gateway
\* connection have terminated by the time its handler has returned, neither
\* stop signal blocks forever, and in normal mode no GatewayStats event is
\* emitted for that EUI after the return until it reconnects; in single mode
\* the permanent stats loop goes on emitting for the configured EUI.
C29_TasksEndWithHandlerNormalQuiet ==
    /\ []TasksGone
    /\ SignalsTaken
    /\ [][~singleMode => QuietAfterReturn]_vars

\* C29 witness: a normal-mode connection returned with both tasks gone, after
\* its loop had reported an uplink, and the clock has run to its end since
C29_Witness ==
    \E c \in Conns :
        /\ ~singleMode
        /\ HandlerDone(c) /\ ping[c] = "stopped" /\ sloop[c].st = "stopped"
        /\ since[ceui[c]].sum > 0
        /\ now = MaxTime


\* ------------------------------------------------------- write deadline
\* the ping task's two calls apart. ticker fired:
\* conn.SetWriteDeadline(time.Now().Add(b.writeTimeout)), no lock taken
PingArm(c) ==
    /\ ping[c] = "wait"
    /\ ping' = [ping EXCEPT ![c] = "armed"]
    /\ emit' = [kind |-> "wdeadline", conn |-> c, by |-> W("ping", c), at |-> now + WriteTimeout]
    /\ UNCHANGED <<singleMode, singleGwID, bState, gateways, hpc, ceui, sock, sloop, muHeld,
                   writers, cur, hh, setErr, dl, raw, diidCache, statsCache, now, sent,
                   since, rdl, call>>

\* conn.WriteMessage(websocket.PingMessage, nil) begins
PingWrite(c) ==
    /\ ping[c] = "armed"
    /\ ping' = [ping EXCEPT ![c] = "writing"]
    /\ writers' = [writers EXCEPT ![c] = @ \cup {W("ping", c)}]
    /\ emit' = NoEvent
    /\ UNCHANGED <<singleMode, singleGwID, bState, gateways, hpc, ceui, sock, sloop, muHeld,
                   cur, hh, setErr, dl, raw, diidCache, statsCache, now, sent, since, rdl, call>>

\* One gateway on one connection, with every writer of its socket: the ping
\* task, the replies of the read loop, a downlink and a raw command.
NextArm ==
    \/ Start
    \/ Accept(1, "aa")
    \/ CheckExisting(1)
    \/ Register(1)
    \/ \E t \in {"version", "timesync"} : ReadMessage(1, Frame(t, 0, TRUE))
    \/ ReplyStart(1)
    \/ \E ok \in BOOLEAN : ReplyEnd(1, ok)
    \/ ReadError(1)
    \/ StopStats(1)
    \/ Deregister(1)
    \/ StopPing(1)
    \/ PingArm(1)
    \/ PingWrite(1)
    \/ \E ok \in BOOLEAN : PingEnd(1, ok)
    \/ DlBegin("aa", 1, "d1", 0, TRUE)
    \/ DlGet
    \/ DlSend(TRUE)
    \/ \E ok \in BOOLEAN : DlWriteEnd(ok)
    \/ RawBegin("aa", "text")
    \/ RawSend(TRUE)
    \/ \E ok \in BOOLEAN : RawWriteEnd(ok)

SpecArm == Init /\ [][NextArm]_vars

\* C30: every write on a socket comes right after the writing task has set
\* that socket's write deadline to now + write-timeout, with no other write
\* on the socket between the two: the ping task's write begins only with its
\* deadline set, and from the deadline to that write no other task begins a
\* write on the socket.
C30_WriteFollowsOwnDeadline ==
    [][\A c \in Conns :
          /\ (emit'.kind = "wdeadline" /\ emit'.conn = c) => emit'.at = now + WriteTimeout
          /\ (W("ping", c) \in writers'[c] \ writers[c]) => ping[c] = "armed"
          /\ ping[c] = "armed" => (writers'[c] \ writers[c]) \subseteq {W("ping", c)}]_vars


\* ------------------------------------------------------- counted uplinks
\* C31: the rx and rxOK counters of a gateway change only for a jreq, updf or
\* propdf message that is decoded, translated and emitted upstream; a message
\* that fails on the way changes no counter.
C31_CountedOnlyWhenDelivered ==
    [][\A c \in Conns :
          /\ (hpc[c] = "read" /\ hpc'[c] = "rxok" /\ ~cur'[c].ok) => statsCache' = statsCache
          /\ (hpc[c] = "rxok" /\ hpc'[c] = "read" /\ emit'.kind # "uplink")
                 => statsCache' = statsCache]_vars


\* ------------------------------------------------------- one loop per EUI
\* the stats loops running for gateway e
RunningLoops(e) == {l \in Loops : sloop[l].gw = e /\ sloop[l].st \notin {"off", "stopped"}}

\* C32: at any time at most one stats loop is running for any EUI, in normal
\* mode and in single mode.
C32_OneLoopPerEUI == \A e \in EUI : Cardinality(RunningLoops(e)) <= 1


\* C33: in every GatewayStats event RxPacketsReceivedOk <= RxPacketsReceived,
\* however uplink processing interleaves with the stats loop's reads and
\* deletes.
C33_RxOkWithinRx == emit.kind = "stats" => emit.rxOK <= emit.rx


\* ------------------------------------------------------- hostMetrics
\* the backend's variables, which the calls below leave alone
backend == <<singleMode, singleGwID, bState, gateways, hpc, ceui, sock, ping, sloop,
             muHeld, writers, cur, hh, setErr, dl, raw, diidCache, statsCache, now,
             emit, sent, since, rdl>>

\* the sampling calls in the order hostMetrics makes them: disk.Usage,
\* cpu.Percent, mem.VirtualMemory, host.Info, net.Interfaces, and in the later
\* version of the file net.IOCounters
Samples(withIO) ==
    IF withIO THEN <<"disk", "cpu", "mem", "host", "ifaces", "io">>
    ELSE <<"disk", "cpu", "mem", "host", "ifaces">>

\* the results whose fields hostMetrics reads once it is past its error check
FieldsRead(withIO) == {Samples(withIO)[i] : i \in 1..Len(Samples(withIO))}

\* `x, err := call()` again and again: err holds the last call's error only
ErrAfter(err, ok) == ~ok

\* hostMetrics is called, in either version of the file
HostMetricsBegin(withIO) ==
    /\ call = NoCall
    /\ call' = [fn |-> "hostMetrics", withIO |-> withIO, pc |-> 1, failed |-> {},
                err |-> FALSE, read |-> {}, out |-> "running"]
    /\ UNCHANGED backend

\* the next sampling call returns, with or without an error
HostSample(ok) ==
    /\ call.fn = "hostMetrics" /\ call.out = "running"
    /\ call.pc <= Len(Samples(call.withIO))
    /\ call' = [call EXCEPT !.pc = @ + 1,
                            !.failed = IF ok THEN @ ELSE @ \cup {Samples(call.withIO)[call.pc]},
                            !.err = ErrAfter(call.err, ok)]
    /\ UNCHANGED backend

\* `if err != nil { return nil, err }`, then the fields of the results are
\* read into the map; diskStat, vmStat and hostStat are pointers and
\* cpuPercentage is indexed, so a failed call that left nil or an empty slice
\* makes the read panic
HostMetricsEnd(nilOnFail) ==
    /\ call.fn = "hostMetrics" /\ call.out = "running"
    /\ call.pc > Len(Samples(call.withIO))
    /\ call' = IF call.err THEN [call EXCEPT !.out = "error"]
               ELSE [call EXCEPT !.read = FieldsRead(call.withIO),
                                 !.out = IF nilOnFail /\ call.failed \cap {"disk", "cpu", "mem", "host"} # {}
                                         THEN "panic" ELSE "map"]
    /\ UNCHANGED backend

\* the caller has the result
HostMetricsReturn ==
    /\ call.fn = "hostMetrics" /\ call.out # "running"
    /\ call' = NoCall
    /\ UNCHANGED backend

NextHost ==
    \/ \E withIO \in BOOLEAN : HostMetricsBegin(withIO)
    \/ \E ok \in BOOLEAN : HostSample(ok)
    \/ \E nilOnFail \in BOOLEAN : HostMetricsEnd(nilOnFail)
    \/ HostMetricsReturn

SpecHost == Init /\ [][NextHost]_vars

\* C34: hostMetrics returns an error and no map whenever any one of its
\* sampling calls failed, and a map otherwise, and it reads no field of a
\* result whose call failed.
C34_EachSampleChecked ==
    (call.fn = "hostMetrics" /\ call.out # "running")
        => /\ call.out = (IF call.failed = {} THEN "map" ELSE "error")
           /\ call.read \cap call.failed = {}


\* ------------------------------------------------------- ParseCommandLine
\* the bytes a command line is made of here: two letters, space, tab, double
\* quote, single quote, backslash
Chars == {"a", "b", "sp", "tab", "dq", "sq", "bs"}
Blank == {"sp", "tab"}
Quotes == {"dq", "sq"}
Commands == UNION {[1..n -> Chars] : n \in 0..MaxCmd}

\* escapeNext := true
EscapeNextAtStart == TRUE

\* ParseCommandLine is called: args, state, current, quote, escapeNext, i
ParseBegin(command) ==
    /\ call = NoCall
    /\ call' = [fn |-> "ParseCommandLine", command |-> command, i |-> 1, args |-> <<>>,
                state |-> "start", current |-> <<>>, quote |-> "dq",
                escapeNext |-> EscapeNextAtStart, out |-> "running", error |-> FALSE]
    /\ UNCHANGED backend

\* one turn of the loop over the command's bytes
ParseChar ==
    /\ call.fn = "ParseCommandLine" /\ call.out = "running"
    /\ call.i <= Len(call.command)
    /\ LET c == call.command[call.i]
           next == [call EXCEPT !.i = @ + 1] IN
       call' = IF call.state = "quotes"
               THEN IF c # call.quote
                    THEN [next EXCEPT !.current = Append(@, c)]
                    ELSE [next EXCEPT !.args = Append(@, call.current), !.current = <<>>,
                                      !.state = "start"]
               ELSE IF call.escapeNext
               THEN [next EXCEPT !.current = Append(@, c), !.escapeNext = FALSE]
               ELSE IF c = "bs"
               THEN [next EXCEPT !.escapeNext = TRUE]
               ELSE IF c \in Quotes
               THEN [next EXCEPT !.state = "quotes", !.quote = c]
               ELSE IF call.state = "arg"
               THEN IF c \in Blank
                    THEN [next EXCEPT !.args = Append(@, call.current), !.current = <<>>,
                                      !.state = "start"]
                    ELSE [next EXCEPT !.current = Append(@, c)]
               ELSE IF c \notin Blank
               THEN [next EXCEPT !.state = "arg", !.current = Append(@, c)]
               ELSE next
    /\ UNCHANGED backend

\* after the loop: the unclosed-quote error with an empty list, or the list
\* with what is left in current
ParseEnd ==
    /\ call.fn = "ParseCommandLine" /\ call.out = "running"
    /\ call.i > Len(call.command)
    /\ call' = IF call.state = "quotes"
               THEN [call EXCEPT !.out = "done", !.error = TRUE, !.args = <<>>]
               ELSE [call EXCEPT !.out = "done",
                                 !.args = IF call.current # <<>> THEN Append(@, call.current) ELSE @]
    /\ UNCHANGED backend

\* the caller has the result
ParseReturn ==
    /\ call.fn = "ParseCommandLine" /\ call.out = "done"
    /\ call' = NoCall
    /\ UNCHANGED backend

NextParse ==
    \/ \E command \in Commands : ParseBegin(command)
    \/ ParseChar
    \/ ParseEnd
    \/ ParseReturn

SpecParse == Init /\ [][NextParse]_vars

\* the maximal runs of non-blank bytes of s from position i on, in order; word
\* is the run under way
RECURSIVE RunsFrom(_, _, _)
RunsFrom(s, i, word) ==
    IF i > Len(s) THEN (IF word = <<>> THEN <<>> ELSE <<word>>)
    ELSE IF s[i] \in Blank
         THEN (IF word = <<>> THEN <<>> ELSE <<word>>) \o RunsFrom(s, i + 1, <<>>)
         ELSE RunsFrom(s, i + 1, Append(word, s[i]))

Plain(s) == \A i \in 1..Len(s) : s[i] \notin Quotes \cup {"bs"}

\* C35: for a command made only of bytes other than quotes and backslash
\* ParseCommandLine returns no error and exactly the maximal runs of
\* non-blank bytes, in order.
C35_SplitsOnBlanks ==
    (call.fn = "ParseCommandLine" /\ call.out = "done" /\ Plain(call.command))
        => (~call.error /\ call.args = RunsFrom(call.command, 1, <<>>))

\* whether s, read from position i on outside quotes, has an opening quote
\* that no backslash escapes and that no later quote of its kind closes; esc:
\* the byte at i follows a backslash; open: the quote under way, or "none"
RECURSIVE Unclosed(_, _, _, _)
Unclosed(s, i, esc, open) ==
    IF i > Len(s) THEN open # "none"
    ELSE IF open # "none"
         THEN Unclosed(s, i + 1, FALSE, IF s[i] = open THEN "none" ELSE open)
    ELSE IF esc THEN Unclosed(s, i + 1, FALSE, "none")
    ELSE IF s[i] = "bs" THEN Unclosed(s, i + 1, TRUE, "none")
    ELSE IF s[i] \in Quotes THEN Unclosed(s, i + 1, FALSE, s[i])
    ELSE Unclosed(s, i + 1, FALSE, "none")

\* C36: ParseCommandLine returns the unclosed-quote error, with an empty
\* list, exactly when the command has an opening quote that no preceding
\* backslash escapes and no quote of the same kind closes.
C36_UnclosedQuoteError ==
    (call.fn = "ParseCommandLine" /\ call.out = "done")
        => /\ call.error <=> Unclosed(call.command, 1, FALSE, "none")
           /\ call.error => call.args = <<>>


\* ------------------------------------------------------- metrics.Setup
Binds == {"127.0.0.1:9090", "0.0.0.0:9090"}     \* conf.Metrics.Bind

\* request paths, by their segments
MetricsPath == <<"metrics">>
PprofPath == <<"debug", "pprof">>
Paths == {<<>>, MetricsPath, <<"metrics", "x">>, PprofPath, <<"debug", "pprof", "heap">>}

\* r.Path(p): the whole path; r.PathPrefix(p): its beginning
PathRoute(p) == [kind |-> "path", tpl |-> p]
PrefixRoute(p) == [kind |-> "prefix", tpl |-> p]

Matches(route, path) ==
    IF route.kind = "path" THEN path = route.tpl
    ELSE /\ Len(path) >= Len(route.tpl)
         /\ SubSeq(path, 1, Len(route.tpl)) = route.tpl

\* the condition on which Setup returns before it builds anything
SetupSkips(prom, prof) == ~prom \/ ~prof

\* Setup is called and makes its first test
SetupBegin(prom, prof, bind) ==
    /\ call = NoCall
    /\ call' = [fn |-> "Setup", prom |-> prom, prof |-> prof, bind |-> bind,
                pc |-> IF SetupSkips(prom, prof) THEN "returned" ELSE "router",
                routes |-> {}, server |-> "none", status |-> 0]
    /\ UNCHANGED backend

\* mux.NewRouter and the endpoints that are enabled
SetupRoutes ==
    /\ call.fn = "Setup" /\ call.pc = "router"
    /\ call' = [call EXCEPT !.pc = "server",
                            !.routes = (IF call.prom THEN {PathRoute(MetricsPath)} ELSE {})
                                       \cup (IF call.prof THEN {PrefixRoute(PprofPath)} ELSE {})]
    /\ UNCHANGED backend

\* the server is built, its goroutine spawned, and Setup returns nil
SetupServe ==
    /\ call.fn = "Setup" /\ call.pc = "server"
    /\ call' = [call EXCEPT !.pc = "returned", !.server = "listening"]
    /\ UNCHANGED backend

\* server.ListenAndServe returns its error, which is logged
ServeFails ==
    /\ call.fn = "Setup" /\ call.server = "listening"
    /\ call' = [call EXCEPT !.server = "failed"]
    /\ UNCHANGED backend

\* a request served by the router: 200 on a route, 404 otherwise
ServeRequest(path) ==
    /\ call.fn = "Setup" /\ call.server = "listening"
    /\ call' = [call EXCEPT !.status = IF \E r \in call.routes : Matches(r, path) THEN 200 ELSE 404]
    /\ emit' = [kind |-> "http", path |-> path]
    /\ UNCHANGED <<singleMode, singleGwID, bState, gateways, hpc, ceui, sock, ping, sloop,
                   muHeld, writers, cur, hh, setErr, dl, raw, diidCache, statsCache, now,
                   sent, since, rdl>>

\* Setup called once, its server answering requests, beside a backend that is
\* started and stopped.
NextMetrics ==
    \/ Start
    \/ Stop
    \/ \E prom \in BOOLEAN, prof \in BOOLEAN, bind \in Binds : SetupBegin(prom, prof, bind)
    \/ SetupRoutes
    \/ SetupServe
    \/ ServeFails
    \/ \E path \in Paths : ServeRequest(path)

SpecMetrics == Init /\ [][NextMetrics]_vars

\* C37: when Setup has returned, the metrics server has been started exactly
\* if the Prometheus or the profiler endpoint is enabled, with exactly the
\* enabled endpoints registered.
C37_ServerWhenAnyEnabled ==
    (call.fn = "Setup" /\ call.pc = "returned")
        => /\ (call.server # "none") <=> (call.prom \/ call.prof)
           /\ call.routes = (IF call.prom THEN {PathRoute(MetricsPath)} ELSE {})
                            \cup (IF call.prof THEN {PrefixRoute(PprofPath)} ELSE {})

====
